---- MODULE Spec2Model ----
(***************************************************************************)
(* A model of the parse5 tree adapter of jsdom                             *)
(* (lib/jsdom/browser/parser/html.js) and of the collaborators it drives:  *)
(* the custom-element reaction stack, the node tree, the mutation-observer *)
(* record queues and the tokenizer's stack of open elements.               *)
(*                                                                         *)
(*   SpecCE    createElement and the custom-element reaction stack         *)
(*   SpecTree  insertText / insertTextBefore / appendChild / insertBefore  *)
(*             / detachNode and the mutation records they queue            *)
(*   SpecStack onItemPush / onItemPop                                      *)
(***************************************************************************)
EXTENDS Integers, Sequences, FiniteSets, TLC

VARIABLES
  \* ---- createElement and the reaction stack (SpecCE)
  customElementReactionsStack, \* Seq of [id, q]: the stack of reaction scopes
  backupQueue,                 \* reactions enqueued while the stack is empty
  throwCounter,                \* ownerDocument._throwOnDynamicMarkupInsertionCounter
  callStack,                   \* the createElement calls in progress, innermost last
  exc,                         \* an exception is propagating to the innermost caller
  nextScope,                   \* number of scopes pushed so far (scope identities)
  nextReaction,                \* number of reactions enqueued so far
  throws,                      \* number of exceptions raised so far
  lastExit,                    \* how the most recent createElement call ended
  reactionLog,                 \* the reactions invoked, in order, and the exceptions
                               \* reactions raised and invokeCEReactions reported
  \* ---- the node tree and the observer queues (SpecTree)
  children,                    \* node -> the ordered sequence of its children
  data,                        \* Text node -> its data (a sequence of characters)
  nextText,                    \* number of Text nodes created so far
  pending,                     \* registration -> its queue of mutation records
  lastOp,                      \* the most recent adapter operation and its pre-state
  run,                         \* the current run of consecutive insertText calls
  origin,                      \* Text node -> the operation that created it
  attributes,                  \* element -> its attributes, a sequence of [name, value]
  disconnected,                \* the registrations whose observer has disconnected
  \* ---- the stack of open elements (SpecStack)
  openElements,                \* the tokenizer's stack of open elements
  currentElement,              \* adapter._currentElement
  hookCalls,                   \* element -> the stack hooks called on it, in order
  \* ---- template contents (SpecTemplate)
  elementImpl,                 \* element -> its fields, _templateContents among them
  fragmentImpl,                \* DocumentFragment -> its _ownerDocument and _host
  nextFragment,                \* number of fragments createDocumentFragment has made
  lastTemplateOp,              \* the most recent setTemplateContent call and its pre-state
  lastCreated,                 \* the node the adapter created last: kind and owner document
  \* ---- the window: timers and animation frames (SpecTimers, SpecFrames)
  _document,                   \* the window still has its document (close deletes it)
  listOfActiveTimers,          \* handle -> the Node.js timer armed for it
  latestTimerId,               \* the last handle allocated
  nodejsTimers,                \* the Node.js timers armed and neither fired nor cleared
  nextNodejsTimer,             \* number of Node.js timers created so far
  animationFrameCallbackId,    \* the last animation-frame handle allocated
  mapOfAnimationFrameCallbacks, \* Seq of [handle, callback], in insertion order
  animationFrameNodejsInterval, \* the Node.js interval last created for frames
  numberOfOngoingAnimationFrameCallbacks,
  nodejsIntervals,             \* the Node.js intervals created and not cleared
  nextNodejsInterval,          \* number of Node.js intervals created so far
  nextTick,                    \* the deferred initialization step is still to run
  readyState,                  \* document.readyState
  documentLoadListener,        \* the document has the window's "load" listener
  _pageShowingFlag,            \* the document's page showing flag
  windowLog,                   \* what handlers and callbacks were invoked and reported
  lastCall                     \* the most recent call on the window and its result

ceVars == <<customElementReactionsStack, backupQueue, throwCounter, callStack, exc,
            nextScope, nextReaction, throws, lastExit, reactionLog>>
treeVars == <<children, data, nextText, pending, lastOp, run, origin, attributes,
              disconnected>>
stackVars == <<openElements, currentElement, hookCalls>>
templateVars == <<elementImpl, fragmentImpl, nextFragment, lastTemplateOp,
                  lastCreated>>
windowVars == <<_document, listOfActiveTimers, latestTimerId, nodejsTimers,
                nextNodejsTimer, animationFrameCallbackId,
                mapOfAnimationFrameCallbacks, animationFrameNodejsInterval,
                numberOfOngoingAnimationFrameCallbacks, nodejsIntervals,
                nextNodejsInterval, nextTick, readyState, documentLoadListener,
                _pageShowingFlag, windowLog, lastCall>>
vars == <<ceVars, treeVars, stackVars, templateVars, windowVars>>

NULL == "null"
HTML_NS == "http://www.w3.org/1999/xhtml"
SVG_NS == "http://www.w3.org/2000/svg"

(***************************************************************************)
(* Bounds                                                                  *)
(***************************************************************************)
MaxDepth == 2        \* nested createElement calls in progress
MaxScopes == 2       \* reaction scopes pushed in one behaviour
MaxReactions == 2    \* reactions enqueued in one behaviour
MaxThrows == 1       \* exceptions raised in one behaviour

(***************************************************************************)
(* The custom element registry: an autonomous element x-a observing the    *)
(* attribute "obs", and a customized built-in fancy-button extending       *)
(* button.                                                                 *)
(***************************************************************************)
Registry ==
  { [name |-> "x-a", localName |-> "x-a", observed |-> {"obs"}],
    [name |-> "fancy-button", localName |-> "button", observed |-> {}] }

\* The tokens the tokenizer hands to createElement: (localName, namespace, attrs).
Tokens ==
  { [localName |-> "x-a", namespace |-> HTML_NS,
     attrs |-> <<[name |-> "obs", value |-> "1"]>>],
    [localName |-> "button", namespace |-> HTML_NS,
     attrs |-> <<[name |-> "is", value |-> "fancy-button"]>>],
    [localName |-> "div", namespace |-> HTML_NS, attrs |-> <<>>],
    [localName |-> "x-a", namespace |-> SVG_NS, attrs |-> <<>>] }

\* lookupCEDefinition(document, namespace, localName, isValue): the definition
\* registered for the triple, or NULL. An isValue that is not passed is undefined
\* and names no definition.
\* Definitions are identified by their name.
lookupCEDefinition(namespace, localName, isValue) ==
  IF namespace # HTML_NS THEN NULL
  ELSE IF \E d \in Registry : d.name = localName /\ d.localName = localName
       THEN localName
  ELSE IF \E d \in Registry : d.name = isValue /\ d.localName = localName
       THEN isValue
  ELSE NULL

\* The observed-attribute set of the definition named n.
ObservedAttributes(n) == UNION { d.observed : d \in { e \in Registry : e.name = n } }

\* html.js 63-64: the value of the first attribute named "is", else null.
isValueOf(attrs) ==
  IF \E i \in 1..Len(attrs) : attrs[i].name = "is"
  THEN attrs[CHOOSE i \in 1..Len(attrs) :
               /\ attrs[i].name = "is"
               /\ \A j \in 1..(i - 1) : attrs[j].name # "is"].value
  ELSE NULL

\* html.js 66: the lookup createElement makes. isValue is computed but the call
\* passes only (ownerDocument, namespace, localName).
createElementDefinition(localName, namespace, attrs) ==
  lookupCEDefinition(namespace, localName, "undefined")

willExecuteScriptFragmentIgnored(definition, fragment) == definition # NULL

\* html.js 68-71
willExecuteScript(definition, fragment) == definition # NULL /\ ~fragment

(***************************************************************************)
(* The reaction stack (pushScope / enqueue / popScope).                    *)
(***************************************************************************)
Depth == Len(customElementReactionsStack)

TopScopeId(stack) == IF stack = <<>> THEN 0 ELSE stack[Len(stack)].id

\* The scope of the createElement call whose constructor pushed the top scope.
TopScopeOuter(stack) == IF stack = <<>> THEN 0 ELSE stack[Len(stack)].outer

\* enqueue(reaction): onto the queue on top of the stack, or the backup queue.
\* The reaction remembers the scope it was enqueued in.
enqueue(stack, backup, rid) ==
  LET r == [id |-> rid, scope |-> TopScopeId(stack), outer |-> TopScopeOuter(stack)]
  IN IF stack = <<>>
     THEN [stack |-> stack, backup |-> Append(backup, r)]
     ELSE [stack |-> [stack EXCEPT ![Len(stack)].q = Append(@, r)],
           backup |-> backup]

\* The reactions that have been enqueued in a scope and not yet invoked.
Pending ==
  UNION { { customElementReactionsStack[i].q[j] :
              j \in 1..Len(customElementReactionsStack[i].q) } : i \in 1..Depth }
  \cup UNION { { callStack[i].queue[j] : j \in 1..Len(callStack[i].queue) } :
               i \in 1..Len(callStack) }

PendingOf(s) == { r \in Pending : r.scope = s }

(***************************************************************************)
(* createElement (html.js 60-92), one frame of callStack per call.         *)
(*   pc = "construct"  line 78 is running (the constructor, when script    *)
(*                     execution is enabled)                               *)
(*   pc = "invoke"     line 83 is running, between two reactions           *)
(*   pc = "reaction"   line 83 is running a reaction                       *)
(***************************************************************************)
NoReaction == [id |-> 0, scope |-> 0, outer |-> 0]

NoExit ==
  [how |-> "none", fragment |-> FALSE, will |-> FALSE, localName |-> NULL,
   scope |-> 0, popped |-> 0, depthIn |-> 0, depthOut |-> 0,
   stackSame |-> TRUE, counterSame |-> TRUE, pc |-> "none", batch |-> <<>>]

Top == callStack[Len(callStack)]

SetTop(f) == [callStack EXCEPT ![Len(callStack)] = f]

Idle == callStack = <<>> /\ ~exc

\* Script is running in the innermost call: a constructor or a reaction.
ScriptRunning ==
  /\ callStack # <<>>
  /\ ~exc
  /\ \/ Top.pc = "construct" /\ Top.will
     \/ Top.pc = "reaction"

ExitOf(f, how) ==
  [how |-> how, fragment |-> f.fragment, will |-> f.will,
   localName |-> f.tok.localName,
   scope |-> f.scope, popped |-> f.popped,
   depthIn |-> f.depthIn, depthOut |-> Depth,
   stackSame |-> customElementReactionsStack = f.stackIn,
   counterSame |-> throwCounter = f.counterIn,
   pc |-> f.pc, batch |-> f.batch]

\* An exception that leaves a createElement call reaches the caller: when the
\* caller (the innermost call of `rest`) is running a reaction, that reaction
\* has raised it.
RaisedInto(rest) ==
  IF rest # <<>> /\ rest[Len(rest)].pc = "reaction"
  THEN [reactionLog EXCEPT !.threw = @ \cup {rest[Len(rest)].cur.id}]
  ELSE reactionLog

\* html.js 60-78: the call up to the point where element creation starts.
Enter(fragment, tok) ==
  LET definition == createElementDefinition(tok.localName, tok.namespace, tok.attrs)
      will == willExecuteScript(definition, fragment)
      frame == [fragment |-> fragment, tok |-> tok, pc |-> "construct",
                will |-> will,
                scope |-> IF will THEN nextScope + 1 ELSE 0,
                popped |-> 0, queue |-> <<>>, batch |-> <<>>, cur |-> NoReaction,
                depthIn |-> Depth,
                stackIn |-> customElementReactionsStack,
                counterIn |-> throwCounter]
      outer == IF callStack # <<>> /\ Top.pc = "construct" THEN Top.scope ELSE 0
  IN /\ will => nextScope < MaxScopes
     /\ callStack' = Append(callStack, frame)
     /\ IF will
        THEN /\ throwCounter' = throwCounter + 1
             /\ customElementReactionsStack' =
                  Append(customElementReactionsStack,
                         [id |-> nextScope + 1, outer |-> outer, q |-> <<>>])
             /\ nextScope' = nextScope + 1
        ELSE UNCHANGED <<throwCounter, customElementReactionsStack, nextScope>>
     /\ UNCHANGED <<backupQueue, exc, nextReaction, throws, lastExit, reactionLog>>

\* The tokenizer calls createElement on an adapter made by parseIntoDocument
\* (fragment = FALSE) or by parseFragment (fragment = TRUE).
TokenizerCreateElement ==
  /\ Idle
  /\ \E fragment \in BOOLEAN, tok \in Tokens : Enter(fragment, tok)

\* Running script starts a parse whose tokenizer calls createElement.
ScriptCreateElement ==
  /\ ScriptRunning
  /\ Len(callStack) < MaxDepth
  /\ \E fragment \in BOOLEAN, tok \in Tokens : Enter(fragment, tok)

\* Running script makes a change that enqueues a reaction.
ScriptEnqueue ==
  /\ ScriptRunning
  /\ nextReaction < MaxReactions
  /\ LET e == enqueue(customElementReactionsStack, backupQueue, nextReaction + 1)
     IN /\ customElementReactionsStack' = e.stack
        /\ backupQueue' = e.backup
  /\ nextReaction' = nextReaction + 1
  /\ UNCHANGED <<throwCounter, callStack, exc, nextScope, throws, lastExit,
                 reactionLog>>

\* The indexes of the attributes whose adoption enqueues an attributeChanged
\* reaction: the element is custom (constructed with script) and observes the name.
ObservedIdx(f, upto) ==
  LET definition == createElementDefinition(f.tok.localName, f.tok.namespace,
                                            f.tok.attrs)
  IN IF f.will /\ definition # NULL
     THEN { i \in 1..upto : f.tok.attrs[i].name \in ObservedAttributes(definition) }
     ELSE {}

\* html.js 161-166: adoptAttributes sets the attributes in order; the first `upto`
\* of them here. At most one attribute of a token is observed in this model.
adoptAttributes(stack, backup, f, upto) ==
  IF ObservedIdx(f, upto) # {} /\ nextReaction < MaxReactions
  THEN enqueue(stack, backup, nextReaction + 1)
  ELSE [stack |-> stack, backup |-> backup]

AdoptCount(f, upto) ==
  IF ObservedIdx(f, upto) # {} /\ nextReaction < MaxReactions THEN 1 ELSE 0

\* html.js 78-82 (and 84-91 without script): element creation returns, the
\* attributes are adopted, and with script the top scope is popped.
ConstructReturn ==
  /\ callStack # <<>>
  /\ ~exc
  /\ Top.pc = "construct"
  /\ LET f == Top
         a == adoptAttributes(customElementReactionsStack, backupQueue, f,
                              Len(f.tok.attrs))
     IN /\ nextReaction' = nextReaction + AdoptCount(f, Len(f.tok.attrs))
        /\ backupQueue' = a.backup
        /\ IF f.will
           THEN /\ a.stack # <<>>
                /\ customElementReactionsStack' = SubSeq(a.stack, 1, Len(a.stack) - 1)
                /\ callStack' = SetTop([f EXCEPT !.pc = "invoke",
                                                 !.popped = a.stack[Len(a.stack)].id,
                                                 !.queue = a.stack[Len(a.stack)].q,
                                                 !.batch = a.stack[Len(a.stack)].q])
                /\ UNCHANGED lastExit
           ELSE /\ customElementReactionsStack' = a.stack
                /\ callStack' = SubSeq(callStack, 1, Len(callStack) - 1)
                /\ lastExit' = [ExitOf(f, "return") EXCEPT
                                  !.stackSame = (a.stack = f.stackIn)]
  /\ UNCHANGED <<throwCounter, exc, nextScope, throws, reactionLog>>

InvokeLast ==
  /\ callStack # <<>>
  /\ ~exc
  /\ Top.pc = "invoke"
  /\ Top.queue # <<>>
  /\ callStack' = SetTop([Top EXCEPT
                            !.pc = "reaction",
                            !.cur = Top.queue[Len(Top.queue)],
                            !.queue = SubSeq(Top.queue, 1, Len(Top.queue) - 1)])
  /\ reactionLog' = [reactionLog EXCEPT !.invoked =
                       Append(@, [id |-> Top.queue[Len(Top.queue)].id,
                                  scope |-> Top.queue[Len(Top.queue)].scope,
                                  by |-> Top.popped])]
  /\ UNCHANGED <<customElementReactionsStack, backupQueue, throwCounter, exc,
                 nextScope, nextReaction, throws, lastExit>>

\* html.js 83, invokeCEReactions: the next reaction of the popped queue is invoked.
InvokeNext ==
  /\ callStack # <<>>
  /\ ~exc
  /\ Top.pc = "invoke"
  /\ Top.queue # <<>>
  /\ callStack' = SetTop([Top EXCEPT !.pc = "reaction",
                                     !.cur = Head(Top.queue),
                                     !.queue = Tail(Top.queue)])
  /\ reactionLog' = [reactionLog EXCEPT !.invoked =
                       Append(@, [id |-> Head(Top.queue).id,
                                  scope |-> Head(Top.queue).scope,
                                  by |-> Top.popped])]
  /\ UNCHANGED <<customElementReactionsStack, backupQueue, throwCounter, exc,
                 nextScope, nextReaction, throws, lastExit>>

\* The running reaction returns.
ReactionReturn ==
  /\ callStack # <<>>
  /\ ~exc
  /\ Top.pc = "reaction"
  /\ callStack' = SetTop([Top EXCEPT !.pc = "invoke", !.cur = NoReaction])
  /\ UNCHANGED <<customElementReactionsStack, backupQueue, throwCounter, exc,
                 nextScope, nextReaction, throws, lastExit, reactionLog>>

\* The running reaction throws.
ReactionThrows ==
  /\ callStack # <<>>
  /\ ~exc
  /\ Top.pc = "reaction"
  /\ throws < MaxThrows
  /\ exc' = TRUE
  /\ throws' = throws + 1
  /\ reactionLog' = [reactionLog EXCEPT !.threw = @ \cup {Top.cur.id}]
  /\ UNCHANGED <<customElementReactionsStack, backupQueue, throwCounter, callStack,
                 nextScope, nextReaction, lastExit>>

\* html.js 84-91: every reaction of the popped queue was invoked; the counter is
\* decremented and the element is returned.
Finish ==
  /\ callStack # <<>>
  /\ ~exc
  /\ Top.pc = "invoke"
  /\ Top.queue = <<>>
  /\ throwCounter' = throwCounter - 1
  /\ callStack' = SubSeq(callStack, 1, Len(callStack) - 1)
  /\ lastExit' = [ExitOf(Top, "return") EXCEPT
                    !.counterSame = (throwCounter - 1 = Top.counterIn)]
  /\ UNCHANGED <<customElementReactionsStack, backupQueue, exc, nextScope,
                 nextReaction, throws, reactionLog>>

\* html.js 78: element creation throws. Nothing between lines 73 and 85 catches.
CreateThrows ==
  /\ callStack # <<>>
  /\ ~exc
  /\ Top.pc = "construct"
  /\ throws < MaxThrows
  /\ exc' = TRUE
  /\ throws' = throws + 1
  /\ callStack' = SubSeq(callStack, 1, Len(callStack) - 1)
  /\ lastExit' = ExitOf(Top, "throw")
  /\ reactionLog' = RaisedInto(SubSeq(callStack, 1, Len(callStack) - 1))
  /\ UNCHANGED <<customElementReactionsStack, backupQueue, throwCounter, nextScope,
                 nextReaction>>

\* html.js 79: setting the k-th attribute throws, the ones before it are set.
AdoptThrows ==
  /\ callStack # <<>>
  /\ ~exc
  /\ Top.pc = "construct"
  /\ throws < MaxThrows
  /\ \E k \in 1..Len(Top.tok.attrs) :
       LET a == adoptAttributes(customElementReactionsStack, backupQueue, Top, k - 1)
       IN /\ customElementReactionsStack' = a.stack
          /\ backupQueue' = a.backup
          /\ nextReaction' = nextReaction + AdoptCount(Top, k - 1)
          /\ lastExit' = [ExitOf(Top, "throw") EXCEPT
                            !.stackSame = (a.stack = Top.stackIn)]
  /\ exc' = TRUE
  /\ throws' = throws + 1
  /\ callStack' = SubSeq(callStack, 1, Len(callStack) - 1)
  /\ reactionLog' = RaisedInto(SubSeq(callStack, 1, Len(callStack) - 1))
  /\ UNCHANGED <<throwCounter, nextScope>>

\* The exception reaches the tokenizer's caller: the top-level operation ends.
TopLevelAbort ==
  /\ exc
  /\ callStack = <<>>
  /\ exc' = FALSE
  /\ UNCHANGED <<customElementReactionsStack, backupQueue, throwCounter, callStack,
                 nextScope, nextReaction, throws, lastExit, reactionLog>>

ReactionPropagates ==
  /\ exc
  /\ callStack # <<>>
  /\ Top.pc = "reaction"
  /\ callStack' = SubSeq(callStack, 1, Len(callStack) - 1)
  /\ lastExit' = ExitOf(Top, "throw")
  /\ reactionLog' = RaisedInto(SubSeq(callStack, 1, Len(callStack) - 1))
  /\ UNCHANGED <<customElementReactionsStack, backupQueue, throwCounter, exc,
                 nextScope, nextReaction, throws>>

\* The exception reaches a running reaction: invokeCEReactions reports it to the
\* error-reporting collaborator and goes on with the next reaction.
ReactionReports ==
  /\ exc
  /\ callStack # <<>>
  /\ Top.pc = "reaction"
  /\ exc' = FALSE
  /\ callStack' = SetTop([Top EXCEPT !.pc = "invoke", !.cur = NoReaction])
  /\ reactionLog' = [reactionLog EXCEPT !.reported = @ \cup {Top.cur.id}]
  /\ UNCHANGED <<customElementReactionsStack, backupQueue, throwCounter, nextScope,
                 nextReaction, throws, lastExit>>

\* The exception reaches a running constructor, which catches it and goes on.
ConstructorCatches ==
  /\ exc
  /\ callStack # <<>>
  /\ Top.pc = "construct"
  /\ exc' = FALSE
  /\ UNCHANGED <<customElementReactionsStack, backupQueue, throwCounter, callStack,
                 nextScope, nextReaction, throws, lastExit, reactionLog>>

\* The exception reaches a running constructor, which does not catch it: element
\* creation throws in the enclosing createElement too.
ConstructorRethrows ==
  /\ exc
  /\ callStack # <<>>
  /\ Top.pc = "construct"
  /\ callStack' = SubSeq(callStack, 1, Len(callStack) - 1)
  /\ lastExit' = ExitOf(Top, "throw")
  /\ reactionLog' = RaisedInto(SubSeq(callStack, 1, Len(callStack) - 1))
  /\ UNCHANGED <<customElementReactionsStack, backupQueue, throwCounter, exc,
                 nextScope, nextReaction, throws>>

CEInit ==
  /\ customElementReactionsStack = <<>>
  /\ backupQueue = <<>>
  /\ throwCounter = 0
  /\ callStack = <<>>
  /\ exc = FALSE
  /\ nextScope = 0
  /\ nextReaction = 0
  /\ throws = 0
  /\ lastExit = NoExit
  /\ reactionLog = [invoked |-> <<>>, threw |-> {}, reported |-> {}]

\* The tree and the stack of open elements take no part in createElement.
CEFrame == UNCHANGED <<treeVars, stackVars, templateVars, windowVars>>

NextCE ==
  \/ TokenizerCreateElement /\ CEFrame
  \/ ScriptCreateElement /\ CEFrame
  \/ ScriptEnqueue /\ CEFrame
  \/ ConstructReturn /\ CEFrame
  \/ InvokeNext /\ CEFrame
  \/ ReactionReturn /\ CEFrame
  \/ ReactionThrows /\ CEFrame
  \/ Finish /\ CEFrame
  \/ CreateThrows /\ CEFrame
  \/ AdoptThrows /\ CEFrame
  \/ TopLevelAbort /\ CEFrame
  \/ ReactionReports /\ CEFrame
  \/ ConstructorCatches /\ CEFrame
  \/ ConstructorRethrows /\ CEFrame

(***************************************************************************)
(* The node tree (SpecTree). Element 1 is the root the parser fills, and   *)
(* element 2 is created and not yet inserted; Text nodes are created by    *)
(* insertText and insertTextBefore.                                        *)
(***************************************************************************)
MaxText == 2         \* Text nodes created in one behaviour
MaxChars == 2        \* characters held by all Text nodes together
MaxRecords == 1      \* mutation records waiting in one registration's queue
MaxAttrs == 2        \* attributes of one element

\* html.js 30: an absent node reference (undefined / null).
undefined == 0

\* The elements the text operations work on.
Elements == {1, 2}

\* The elements of the document.
AllElements == {1, 2, 3}

TextIds == 11..(10 + MaxText)

Nodes == AllElements \cup TextIds

\* The strings the tokenizer inserts.
Strings == { <<"a">>, <<"b">> }

nodeType(n) == IF n \in TextIds THEN "TEXT_NODE" ELSE "ELEMENT_NODE"

\* The observer registrations made before parsing: observe(target, options).
Registrations ==
  { [id |-> 1, target |-> 1, childList |-> TRUE, characterData |-> TRUE,
     attributes |-> TRUE, subtree |-> TRUE],
    [id |-> 2, target |-> 2, childList |-> TRUE, characterData |-> FALSE,
     attributes |-> FALSE, subtree |-> FALSE] }

RegIds == { r.id : r \in Registrations }

Range(seq) == { seq[i] : i \in 1..Len(seq) }

IndexOf(seq, n) == CHOOSE i \in 1..Len(seq) : seq[i] = n

parentOf(ch, n) ==
  IF \E p \in Nodes : n \in Range(ch[p])
  THEN CHOOSE p \in Nodes : n \in Range(ch[p])
  ELSE undefined

lastChild(ch, p) == IF ch[p] = <<>> THEN undefined ELSE ch[p][Len(ch[p])]

previousSibling(ch, n) ==
  IF parentOf(ch, n) = undefined THEN undefined
  ELSE LET sibs == ch[parentOf(ch, n)]
       IN IF IndexOf(sibs, n) = 1 THEN undefined ELSE sibs[IndexOf(sibs, n) - 1]

RECURSIVE inclusiveAncestors(_, _)
inclusiveAncestors(ch, n) ==
  IF parentOf(ch, n) = undefined THEN {n}
  ELSE {n} \cup inclusiveAncestors(ch, parentOf(ch, n))

\* The registrations a change of kind `type` at `target` is of interest to: the
\* option is set, and the target is the registration's node or, with subtree,
\* a descendant of it.
interestedRegistrations(ch, type, target) ==
  { r \in Registrations :
      /\ IF type = "childList" THEN r.childList
         ELSE IF type = "attributes" THEN r.attributes
         ELSE r.characterData
      /\ \/ r.target = target
         \/ r.subtree /\ r.target \in inclusiveAncestors(ch, target) }

\* The state the tree operations work on; error is the exception the operation
\* raised to its caller, if any.
Dom == [children |-> children, data |-> data, nextText |-> nextText,
        pending |-> pending, attributes |-> attributes,
        disconnected |-> disconnected, error |-> "none"]

\* part_001 38-52: the record built from privateData. Names are sequences of
\* characters; the attribute name of a record that is not about an attribute
\* is empty.
MutationRecord(type, target, addedNodes, removedNodes, attributeName) ==
  [type |-> type, target |-> target, addedNodes |-> addedNodes,
   removedNodes |-> removedNodes, attributeName |-> attributeName]

queueMutationRecordToDisconnected(d, record) ==
  [d EXCEPT !.pending =
     [r \in RegIds |->
        IF \E g \in interestedRegistrations(d.children, record.type,
                                            record.target) : g.id = r
        THEN Append(d.pending[r], record)
        ELSE d.pending[r]]]

\* One MutationRecord is appended to the queue of every interested registration
\* that has not been disconnected.
queueMutationRecord(d, record) ==
  [d EXCEPT !.pending =
     [r \in RegIds |->
        IF /\ r \notin d.disconnected
           /\ \E g \in interestedRegistrations(d.children, record.type,
                                               record.target) : g.id = r
        THEN Append(d.pending[r], record)
        ELSE d.pending[r]]]

\* Node Tree Core insert(node, newParent, referenceChild?): fails with
\* HierarchyRequestError when node is newParent or an ancestor of it; otherwise
\* node goes before the reference child, or last when there is none, and one
\* childList record is queued.
_insert(d, parentNode, node, referenceNode) ==
  LET kids == d.children[parentNode]
      at == IF referenceNode = undefined THEN Len(kids) + 1
            ELSE IndexOf(kids, referenceNode)
      new == SubSeq(kids, 1, at - 1) \o <<node>> \o SubSeq(kids, at, Len(kids))
  IN IF node \in inclusiveAncestors(d.children, parentNode)
     THEN [d EXCEPT !.error = "HierarchyRequestError"]
     ELSE queueMutationRecord(
            [d EXCEPT !.children[parentNode] = new],
            MutationRecord("childList", parentNode, <<node>>, <<>>, <<>>))

\* Node Tree Core append: insert with no reference child.
_append(d, parentNode, node) == _insert(d, parentNode, node, undefined)

\* Node Tree Core remove(node): the node leaves its parent's children and keeps
\* its own; one childList record on the former parent.
remove(d, node) ==
  LET p == parentOf(d.children, node)
  IN IF p = undefined THEN d
     ELSE queueMutationRecord(
            [d EXCEPT !.children[p] = SelectSeq(@, LAMBDA x : x # node)],
            MutationRecord("childList", p, <<>>, <<node>>, <<>>))

\* The data setter of a Text node ("data += text"): one characterData record.
setData(d, node, value) ==
  queueMutationRecord([d EXCEPT !.data[node] = value],
                      MutationRecord("characterData", node, <<>>, <<>>, <<>>))

\* The Text node Text.createImpl makes next.
newTextNode(d) == 10 + d.nextText + 1

\* Text.createImpl(globalObject, [], { data, ownerDocument })
createText(d, text) ==
  [d EXCEPT !.nextText = @ + 1, !.data[newTextNode(d)] = text]

appendChildQueuesNothing(d, parentNode, newNode) ==
  IF newNode \in inclusiveAncestors(d.children, parentNode)
  THEN [d EXCEPT !.error = "HierarchyRequestError"]
  ELSE [d EXCEPT !.children[parentNode] = Append(@, newNode)]

\* html.js 99-101
appendChild(d, parentNode, newNode) == _append(d, parentNode, newNode)

insertBeforeAppendsLast(d, parentNode, newNode, referenceNode) ==
  _append(d, parentNode, newNode)

\* html.js 103-105
insertBefore(d, parentNode, newNode, referenceNode) ==
  _insert(d, parentNode, newNode, referenceNode)

detachNodeDropsChildren(d, node) ==
  [remove(d, node) EXCEPT !.children[node] = <<>>]

\* html.js 135-137
detachNode(d, node) == remove(d, node)

insertTextAlwaysCreates(d, parentNode, text) ==
  _append(createText(d, text), parentNode, newTextNode(d))

insertTextMergesSilently(d, parentNode, text) ==
  LET last == lastChild(d.children, parentNode)
  IN IF last # undefined /\ nodeType(last) = "TEXT_NODE"
     THEN [d EXCEPT !.data[last] = @ \o text]
     ELSE _append(createText(d, text), parentNode, newTextNode(d))

\* html.js 139-148
insertText(d, parentNode, text) ==
  LET last == lastChild(d.children, parentNode)
  IN IF last # undefined /\ nodeType(last) = "TEXT_NODE"
     THEN setData(d, last, d.data[last] \o text)
     ELSE _append(createText(d, text), parentNode, newTextNode(d))

insertTextBeforeAlwaysCreates(d, parentNode, text, referenceNode) ==
  _append(createText(d, text), parentNode, newTextNode(d))

\* html.js 150-159. Line 157 calls parentNode._append(textNode, referenceNode):
\* _append takes the node alone, the reference node is not used.
insertTextBefore(d, parentNode, text, referenceNode) ==
  LET prev == previousSibling(d.children, referenceNode)
  IN IF prev # undefined /\ nodeType(prev) = "TEXT_NODE"
     THEN setData(d, prev, d.data[prev] \o text)
     ELSE _append(createText(d, text), parentNode, newTextNode(d))

\* takeRecords(): the registration's queue is drained.
takeRecords(d, r) == [d EXCEPT !.pending[r] = <<>>]

\* disconnect(): the observer's queue is cleared and its registration takes no
\* part in later scoping.
disconnect(d, r) ==
  [d EXCEPT !.pending[r] = <<>>, !.disconnected = @ \cup {r}]

RECURSIVE SumLen(_, _)
SumLen(f, S) ==
  IF S = {} THEN 0
  ELSE LET x == CHOOSE y \in S : TRUE IN Len(f[x]) + SumLen(f, S \ {x})

\* The bounds of the model.
WithinBounds(d) ==
  /\ d.nextText <= MaxText
  /\ SumLen(d.data, TextIds) <= MaxChars
  /\ \A r \in RegIds : Len(d.pending[r]) <= MaxRecords
  /\ \A e \in Elements : Len(d.attributes[e]) <= MaxAttrs

Install(d) ==
  /\ WithinBounds(d)
  /\ children' = d.children
  /\ data' = d.data
  /\ nextText' = d.nextText
  /\ pending' = d.pending
  /\ attributes' = d.attributes
  /\ disconnected' = d.disconnected

NoOp == [op |-> "none", parent |-> undefined, ref |-> undefined, text |-> <<>>,
         merged |-> FALSE, error |-> "none", node |-> undefined, name |-> <<>>,
         value |-> NULL, attrs |-> <<>>]

NoRun == [parent |-> undefined, hadText |-> FALSE, base |-> <<>>, cat |-> <<>>,
          made |-> 0, texts |-> 0]

IsText(n) == n # undefined /\ nodeType(n) = "TEXT_NODE"

\* The run of insertText calls on a parent ends with any other operation that
\* changes that parent's children.
RunAfterOpOn(p) == IF run.parent = p THEN NoRun ELSE run

\* The Text node an operation has created, if any, is marked with the operation.
OriginAfter(d, op) ==
  [t \in TextIds |-> IF t > 10 + nextText /\ t <= 10 + d.nextText THEN op
                     ELSE origin[t]]

\* The nodes reached from the nodes of S by following children, at most k levels.
RECURSIVE reach(_, _, _)
reach(ch, S, k) ==
  IF k = 0 THEN S
  ELSE reach(ch, S \cup UNION { Range(ch[x]) : x \in S }, k - 1)

\* The descendants of a node: what iterating its children, and theirs, yields.
descendants(ch, n) == reach(ch, Range(ch[n]), Cardinality(Nodes))

TextChildren(ch, p) == Cardinality({ n \in Range(ch[p]) : IsText(n) })

\* The tokenizer appends an element of E that has no parent (a new element, or
\* one it has detached) under an element of E.
AppendChildOf(E) ==
  \E parentNode \in E, newNode \in E :
    /\ parentOf(children, newNode) = undefined
    /\ Install(appendChild(Dom, parentNode, newNode))
    /\ lastOp' = IF appendChild(Dom, parentNode, newNode).error = "none"
                 THEN [NoOp EXCEPT !.op = "appendChild", !.parent = parentNode,
                                   !.node = newNode]
                 ELSE [NoOp EXCEPT
                         !.op = "appendChild",
                         !.error = appendChild(Dom, parentNode, newNode).error]
    /\ run' = IF appendChild(Dom, parentNode, newNode).error = "none"
              THEN RunAfterOpOn(parentNode) ELSE run
    /\ UNCHANGED origin

\* Between text insertions the tokenizer makes the calls the tree accepts.
AppendChild == AppendChildOf(Elements) /\ lastOp'.error = "none"

\* The tokenizer inserts an element of E that has no parent before a child of
\* the parent.
InsertBeforeOf(E) ==
  \E parentNode \in E, newNode \in E :
    \E referenceNode \in Range(children[parentNode]) :
      /\ parentOf(children, newNode) = undefined
      /\ Install(insertBefore(Dom, parentNode, newNode, referenceNode))
      /\ lastOp' = IF insertBefore(Dom, parentNode, newNode, referenceNode).error
                        = "none"
                   THEN [NoOp EXCEPT !.op = "insertBefore", !.parent = parentNode,
                                     !.ref = referenceNode, !.node = newNode]
                   ELSE [NoOp EXCEPT
                           !.op = "insertBefore",
                           !.error = insertBefore(Dom, parentNode, newNode,
                                                  referenceNode).error]
      /\ run' = IF insertBefore(Dom, parentNode, newNode, referenceNode).error
                     = "none"
                THEN RunAfterOpOn(parentNode) ELSE run
      /\ UNCHANGED origin

InsertBefore == InsertBeforeOf(Elements) /\ lastOp'.error = "none"

\* The tokenizer detaches a node of S from its parent.
DetachNodeOf(S) ==
  \E node \in S :
    /\ parentOf(children, node) # undefined
    /\ Install(detachNode(Dom, node))
    /\ lastOp' = [NoOp EXCEPT !.op = "detachNode",
                              !.parent = parentOf(children, node), !.ref = node,
                              !.node = node]
    /\ run' = RunAfterOpOn(parentOf(children, node))
    /\ UNCHANGED origin

DetachNode == DetachNodeOf(Nodes)

InsertText ==
  \E parentNode \in Elements, text \in Strings :
    LET last == lastChild(children, parentNode)
        continues == run.parent = parentNode
        created == insertText(Dom, parentNode, text).nextText - nextText
    IN /\ Install(insertText(Dom, parentNode, text))
       /\ lastOp' = [NoOp EXCEPT !.op = "insertText", !.parent = parentNode,
                                 !.text = text, !.merged = IsText(last)]
       /\ run' = IF continues
                 THEN [run EXCEPT !.cat = @ \o text, !.made = @ + created]
                 ELSE [parent |-> parentNode,
                       hadText |-> IsText(last),
                       base |-> IF IsText(last) THEN data[last] ELSE <<>>,
                       cat |-> text,
                       made |-> created,
                       texts |-> TextChildren(children, parentNode)]
       /\ origin' = OriginAfter(insertText(Dom, parentNode, text), "insertText")

InsertTextBefore ==
  \E parentNode \in Elements, text \in Strings :
    \E referenceNode \in Range(children[parentNode]) :
      /\ Install(insertTextBefore(Dom, parentNode, text, referenceNode))
      /\ lastOp' = [NoOp EXCEPT
                      !.op = "insertTextBefore", !.parent = parentNode,
                      !.ref = referenceNode, !.text = text,
                      !.merged = IsText(previousSibling(children, referenceNode))]
      /\ run' = RunAfterOpOn(parentNode)
      /\ origin' = OriginAfter(insertTextBefore(Dom, parentNode, text, referenceNode),
                               "insertTextBefore")

TakeRecords ==
  \E r \in RegIds :
    /\ pending[r] # <<>>
    /\ Install(takeRecords(Dom, r))
    /\ lastOp' = [NoOp EXCEPT !.op = "takeRecords"]
    /\ UNCHANGED <<run, origin>>

\* Script disconnects an observer that is still registered.
Disconnect ==
  \E r \in RegIds \ disconnected :
    /\ Install(disconnect(Dom, r))
    /\ lastOp' = [NoOp EXCEPT !.op = "disconnect"]
    /\ UNCHANGED <<run, origin>>

TreeInit ==
  /\ children = [n \in Nodes |-> <<>>]
  /\ data = [n \in TextIds |-> <<>>]
  /\ nextText = 0
  /\ pending = [r \in RegIds |-> <<>>]
  /\ lastOp = NoOp
  /\ run = NoRun
  /\ origin = [t \in TextIds |-> "none"]
  /\ attributes = [e \in Elements |-> <<>>]
  /\ disconnected = {}

\* createElement and the stack of open elements take no part in these operations.
TreeFrame == UNCHANGED <<ceVars, stackVars, templateVars, windowVars>>

NextTree ==
  \/ AppendChild /\ TreeFrame
  \/ InsertBefore /\ TreeFrame
  \/ DetachNode /\ TreeFrame
  \/ InsertText /\ TreeFrame
  \/ InsertTextBefore /\ TreeFrame
  \/ TakeRecords /\ TreeFrame

\* The structural operations on the elements of the document (SpecShape): any
\* call, the ones the tree rejects included.
NextShape ==
  \/ AppendChildOf(AllElements) /\ TreeFrame
  \/ InsertBeforeOf(AllElements) /\ TreeFrame
  \/ DetachNodeOf(AllElements) /\ TreeFrame
  \/ TakeRecords /\ TreeFrame

(***************************************************************************)
(* The attribute store and the dataset (SpecAttr). Names are sequences of  *)
(* characters, so that the conversions between property names and         *)
(* attribute names are computed as the code computes them.                 *)
(***************************************************************************)
LowerCase == <<"a", "b", "d", "i", "t">>

UpperCase == <<"A", "B", "D", "I", "T">>

isLower(ch) == ch \in Range(LowerCase)

isUpper(ch) == ch \in Range(UpperCase)

toUpperCase(ch) == IF isLower(ch) THEN UpperCase[IndexOf(LowerCase, ch)] ELSE ch

toLowerCase(ch) == IF isUpper(ch) THEN LowerCase[IndexOf(UpperCase, ch)] ELSE ch

\* DOMStringMap-impl.js 10-12: name.replace(/-([a-z])/g, alpha.toUpperCase())
RECURSIVE attrCamelCase(_)
attrCamelCase(name) ==
  IF name = <<>> THEN <<>>
  ELSE IF Len(name) >= 2 /\ name[1] = "-" /\ isLower(name[2])
       THEN <<toUpperCase(name[2])>> \o attrCamelCase(SubSeq(name, 3, Len(name)))
       ELSE <<name[1]>> \o attrCamelCase(Tail(name))

\* DOMStringMap-impl.js 14-16: name.replace(/[A-Z]/g, `-${match.toLowerCase()}`)
RECURSIVE attrSnakeCase(_)
attrSnakeCase(name) ==
  IF name = <<>> THEN <<>>
  ELSE (IF isUpper(name[1]) THEN <<"-", toLowerCase(name[1])>> ELSE <<name[1]>>)
         \o attrSnakeCase(Tail(name))

\* "data-"
DataPrefix == <<"d", "a", "t", "a", "-">>

\* DOMStringMap-impl.js 8: /^data-([^A-Z]*)$/ applied to a local name; rest is
\* matches[1].
dataAttrRe(localName) ==
  IF /\ Len(localName) >= Len(DataPrefix)
     /\ SubSeq(localName, 1, Len(DataPrefix)) = DataPrefix
     /\ \A i \in (Len(DataPrefix) + 1)..Len(localName) : ~isUpper(localName[i])
  THEN [matches |-> TRUE,
        rest |-> SubSeq(localName, Len(DataPrefix) + 1, Len(localName))]
  ELSE [matches |-> FALSE, rest |-> <<>>]

\* DOMStringMap-impl.js 23-34: the loop from attribute i on; result is the Set
\* built so far, in insertion order.
RECURSIVE supportedFrom(_, _, _)
supportedFrom(attrs, i, result) ==
  IF i > Len(attrs) THEN result
  ELSE LET m == dataAttrRe(attrs[i].name)
           n == attrCamelCase(m.rest)
       IN supportedFrom(attrs, i + 1,
                        IF m.matches /\ n \notin Range(result)
                        THEN Append(result, n) ELSE result)

\* DOMStringMap-impl.js 23-34
supportedPropertyNames(attrs) == supportedFrom(attrs, 1, <<>>)

\* DOMStringMap-impl.js 35-45
namedGet(attrs, name) ==
  LET hits == { i \in 1..Len(attrs) :
                  /\ dataAttrRe(attrs[i].name).matches
                  /\ attrCamelCase(dataAttrRe(attrs[i].name).rest) = name }
  IN IF hits = {} THEN "undefined"
     ELSE attrs[CHOOSE i \in hits : \A j \in hits : i <= j].value

\* DOMStringMap-impl.js 47: /-[a-z]/.test(name)
hasHyphenLower(name) ==
  \E i \in 1..(Len(name) - 1) : name[i] = "-" /\ isLower(name[i + 1])

\* validateName: the name is made of name characters and starts with a letter.
validateName(name) ==
  /\ name # <<>>
  /\ isLower(name[1]) \/ isUpper(name[1])
  /\ \A i \in 1..Len(name) : isLower(name[i]) \/ isUpper(name[i]) \/ name[i] = "-"

\* Attribute Store set: a name not yet present is appended, a name that is
\* present has its value updated in place; one attributes record.
setAttributeValue(d, element, name, value) ==
  LET attrs == d.attributes[element]
      new == IF \E i \in 1..Len(attrs) : attrs[i].name = name
             THEN [i \in 1..Len(attrs) |->
                     IF attrs[i].name = name THEN [attrs[i] EXCEPT !.value = value]
                     ELSE attrs[i]]
             ELSE Append(attrs, [name |-> name, value |-> value])
  IN queueMutationRecord([d EXCEPT !.attributes[element] = new],
                         MutationRecord("attributes", element, <<>>, <<>>, name))

\* Attribute Store remove: the attribute of that name, if any, leaves the list.
removeAttributeByName(d, element, name) ==
  LET attrs == d.attributes[element]
  IN IF \E i \in 1..Len(attrs) : attrs[i].name = name
     THEN queueMutationRecord(
            [d EXCEPT !.attributes[element] =
               SelectSeq(attrs, LAMBDA a : a.name # name)],
            MutationRecord("attributes", element, <<>>, <<>>, name))
     ELSE d

\* html.js 161-166: the attributes of the token are set in order.
RECURSIVE adoptAttributesInto(_, _, _)
adoptAttributesInto(d, element, attrs) ==
  IF attrs = <<>> THEN d
  ELSE adoptAttributesInto(
         setAttributeValue(d, element, Head(attrs).name, Head(attrs).value),
         element, Tail(attrs))

namedSetNewPlainName(d, element, name, value) ==
  IF hasHyphenLower(name) THEN [d EXCEPT !.error = "SyntaxError"]
  ELSE IF ~validateName(DataPrefix \o name)
       THEN [d EXCEPT !.error = "SyntaxError"]
       ELSE setAttributeValue(d, element, DataPrefix \o name, value)

namedSetNewUnchecked(d, element, name, value) ==
  IF ~validateName(DataPrefix \o attrSnakeCase(name))
  THEN [d EXCEPT !.error = "SyntaxError"]
  ELSE setAttributeValue(d, element, DataPrefix \o attrSnakeCase(name), value)

\* DOMStringMap-impl.js 46-56. validateName raises for a malformed name before
\* the attribute is set.
namedSetNew(d, element, name, value) ==
  IF hasHyphenLower(name) THEN [d EXCEPT !.error = "SyntaxError"]
  ELSE IF ~validateName(DataPrefix \o attrSnakeCase(name))
       THEN [d EXCEPT !.error = "SyntaxError"]
       ELSE setAttributeValue(d, element, DataPrefix \o attrSnakeCase(name), value)

\* DOMStringMap-impl.js 57-59
namedSetExisting(d, element, name, value) == namedSetNew(d, element, name, value)

\* DOMStringMap-impl.js 60-63
namedDelete(d, element, name) ==
  removeAttributeByName(d, element, DataPrefix \o attrSnakeCase(name))

\* The property names script uses: "a", "aB", "-a" and " ".
PropertyNames == { <<"a">>, <<"a", "B">>, <<"-", "a">>, <<" ">> }

Values == { "x", "y" }

\* The attribute lists of the tokens: data-a="x"; id="y" data-a-b="x";
\* data-a="y" id="x".
AttrLists ==
  { <<[name |-> DataPrefix \o <<"a">>, value |-> "x"]>>,
    <<[name |-> <<"i", "d">>, value |-> "y"],
      [name |-> DataPrefix \o <<"a", "-", "b">>, value |-> "x"]>>,
    <<[name |-> DataPrefix \o <<"a">>, value |-> "y"],
      [name |-> <<"i", "d">>, value |-> "x"]>> }

\* The tokenizer hands the attributes of a token to adoptAttributes.
AdoptAttributes ==
  \E element \in Elements, attrs \in AttrLists :
    /\ Install(adoptAttributesInto(Dom, element, attrs))
    /\ lastOp' = [NoOp EXCEPT !.op = "adoptAttributes", !.parent = element,
                              !.attrs = attrs]
    /\ UNCHANGED <<run, origin>>

\* Script assigns element.dataset[name] = value: the binding calls
\* namedSetExisting for a supported property name and namedSetNew otherwise.
DatasetSetOf(E, N, V) ==
  \E element \in E, name \in N, value \in V :
    LET r == IF name \in Range(supportedPropertyNames(attributes[element]))
             THEN namedSetExisting(Dom, element, name, value)
             ELSE namedSetNew(Dom, element, name, value)
    IN /\ Install(r)
       /\ lastOp' = [NoOp EXCEPT !.op = "datasetSet", !.parent = element,
                                 !.name = name, !.value = value,
                                 !.error = r.error]
       /\ UNCHANGED <<run, origin>>

\* Script uses the dataset of element 1, the element whose attributes are
\* observed.
DatasetSet == DatasetSetOf({1}, PropertyNames, Values)

\* Script deletes element.dataset[name], a supported property name.
DatasetDelete ==
  \E element \in Elements, name \in PropertyNames :
    /\ name \in Range(supportedPropertyNames(attributes[element]))
    /\ Install(namedDelete(Dom, element, name))
    /\ lastOp' = [NoOp EXCEPT !.op = "datasetDelete", !.parent = element,
                              !.name = name]
    /\ UNCHANGED <<run, origin>>

NextAttr ==
  \/ AdoptAttributes /\ TreeFrame
  \/ DatasetSet /\ TreeFrame
  \/ DatasetDelete /\ TreeFrame
  \/ TakeRecords /\ TreeFrame

(***************************************************************************)
(* Observers that disconnect (SpecObserver): tree, character-data and      *)
(* attribute mutations under element 1, with takeRecords and disconnect.   *)
(***************************************************************************)
NextObserver ==
  \/ AppendChild /\ TreeFrame
  \/ DetachNode /\ TreeFrame
  \/ InsertText /\ TreeFrame
  \/ DatasetSetOf({1}, {<<"a">>}, {"x"}) /\ TreeFrame
  \/ TakeRecords /\ TreeFrame
  \/ Disconnect /\ TreeFrame

(***************************************************************************)
(* The stack of open elements (SpecStack).                                 *)
(***************************************************************************)
MaxOpen == 3         \* elements on the tokenizer's stack of open elements

\* The elements the tokenizer opens.
OpenPool == {1, 2, 3, 4}

\* The elements that define _pushedOnStackOfOpenElements / _poppedOffStackOfOpenElements.
HasPushedHook == {1}
HasPoppedHook == {1, 2}

onItemPopKeepsBefore(before, newTop) == before

\* html.js 168-169: the new value of _currentElement.
onItemPush(after) == after

\* html.js 173-174: the new value of _currentElement.
onItemPop(before, newTop) == newTop

\* The tokenizer pushes node on its stack and calls onItemPush(node).
OnItemPush ==
  \E node \in OpenPool :
    /\ node \notin Range(openElements)
    /\ Len(openElements) < MaxOpen
    /\ openElements' = Append(openElements, node)
    /\ currentElement' = onItemPush(node)
    /\ hookCalls' = IF node \in HasPushedHook
                    THEN [hookCalls EXCEPT ![node] = "pushed"]
                    ELSE hookCalls

\* The tokenizer pops its stack and calls onItemPop(popped, the new top).
OnItemPop ==
  /\ openElements # <<>>
  /\ LET before == openElements[Len(openElements)]
         rest == SubSeq(openElements, 1, Len(openElements) - 1)
         newTop == IF rest = <<>> THEN undefined ELSE rest[Len(rest)]
     IN /\ openElements' = rest
        /\ currentElement' = onItemPop(before, newTop)
        /\ hookCalls' = IF before \in HasPoppedHook
                        THEN [hookCalls EXCEPT ![before] = "popped"]
                        ELSE hookCalls

StackInit ==
  /\ openElements = <<>>
  /\ currentElement = undefined
  /\ hookCalls = [e \in OpenPool |-> "none"]

StackFrame == UNCHANGED <<ceVars, treeVars, templateVars, windowVars>>

NextStack ==
  \/ OnItemPush /\ StackFrame
  \/ OnItemPop /\ StackFrame

(***************************************************************************)
(* Template contents (SpecTemplate). The elements the tokenizer opens exist *)
(* already: 1 and 3 are HTML template elements, each constructed with a    *)
(* content fragment of its own; 2 is a div and 4 is an SVG element named   *)
(* template, neither of which has _templateContents.                       *)
(***************************************************************************)
MaxFragments == 2    \* fragments made by createDocumentFragment

\* The document being parsed into, and the inert document that owns the
\* contents of its templates.
documentImpl == "doc"

Documents == { "doc", "inert" }

FragmentIds == 31..(32 + MaxFragments)

NoFragment == [_ownerDocument |-> NULL, _host |-> undefined]

_ownerDocumentOfElement(cur, e, f) ==
  IF cur # undefined THEN e[cur]._ownerDocument ELSE documentImpl

\* html.js 33-44
_ownerDocument(cur, e, f) ==
  IF cur # undefined
  THEN IF e[cur].localName = "template" /\ e[cur].namespaceURI = HTML_NS
       THEN f[e[cur]._templateContents]._ownerDocument
       ELSE e[cur]._ownerDocument
  ELSE documentImpl

\* html.js 54-57: the fragment DocumentFragment.createImpl makes next.
newFragment == 32 + nextFragment + 1

setTemplateContentKeepsLinkage(e, f, templateElement, contentFragment) ==
  IF e[templateElement]._templateContents = undefined
  THEN [elementImpl |-> e, fragmentImpl |-> f, error |-> "TypeError"]
  ELSE [elementImpl |-> [e EXCEPT ![templateElement]._templateContents =
                                     contentFragment],
        fragmentImpl |-> f,
        error |-> "none"]

\* html.js 107-121. Line 116 destructures templateElement._templateContents: when
\* the element has none, reading a property of undefined throws a TypeError
\* before anything is assigned.
setTemplateContent(e, f, templateElement, contentFragment) ==
  IF e[templateElement]._templateContents = undefined
  THEN [elementImpl |-> e, fragmentImpl |-> f, error |-> "TypeError"]
  ELSE LET old == f[e[templateElement]._templateContents]
       IN [elementImpl |-> [e EXCEPT ![templateElement]._templateContents =
                                       contentFragment],
           fragmentImpl |-> [f EXCEPT ![contentFragment] =
                               [_ownerDocument |-> old._ownerDocument,
                                _host |-> old._host]],
           error |-> "none"]

NoTemplateOp ==
  [op |-> "none", templateElement |-> undefined, contentFragment |-> undefined,
   error |-> "none", elementBefore |-> <<>>, fragmentBefore |-> <<>>]

\* The tokenizer asks for a fragment (for the contents of a template it parses).
CreateDocumentFragment ==
  /\ nextFragment < MaxFragments
  /\ fragmentImpl' =
       [fragmentImpl EXCEPT ![newFragment] =
          [_ownerDocument |-> _ownerDocument(currentElement, elementImpl, fragmentImpl),
           _host |-> undefined]]
  /\ nextFragment' = nextFragment + 1
  /\ UNCHANGED <<elementImpl, lastTemplateOp, lastCreated>>

\* The nodes the adapter creates besides fragments: createElement (html.js 60-61),
\* createCommentNode (94-97), setDocumentType (123-126) and the Text node of
\* insertText and insertTextBefore (144-145, 155-156).
CreatedKinds == { "element", "comment", "doctype", "text" }

\* Each of them is created with ownerDocument: this._ownerDocument().
CreateNode ==
  \E kind \in CreatedKinds :
    /\ lastCreated' =
         [kind |-> kind,
          ownerDocument |-> _ownerDocument(currentElement, elementImpl, fragmentImpl)]
    /\ UNCHANGED <<elementImpl, fragmentImpl, nextFragment, lastTemplateOp>>

\* The tokenizer hands a fragment it has made to setTemplateContent.
SetTemplateContent ==
  \E templateElement \in OpenPool :
    \E contentFragment \in 33..(32 + nextFragment) :
      LET r == setTemplateContent(elementImpl, fragmentImpl, templateElement,
                                  contentFragment)
      IN /\ elementImpl' = r.elementImpl
         /\ fragmentImpl' = r.fragmentImpl
         /\ lastTemplateOp' =
              [op |-> "setTemplateContent", templateElement |-> templateElement,
               contentFragment |-> contentFragment, error |-> r.error,
               elementBefore |-> elementImpl, fragmentBefore |-> fragmentImpl]
         /\ UNCHANGED <<nextFragment, lastCreated>>

TemplateInit ==
  /\ elementImpl =
       [n \in OpenPool |->
          [localName |-> IF n = 2 THEN "div" ELSE "template",
           namespaceURI |-> IF n = 4 THEN SVG_NS ELSE HTML_NS,
           _ownerDocument |-> IF n = 4 THEN "inert" ELSE documentImpl,
           _templateContents |-> IF n = 1 THEN 31 ELSE IF n = 3 THEN 32
                                 ELSE undefined]]
  /\ fragmentImpl =
       [g \in FragmentIds |->
          IF g = 31 THEN [_ownerDocument |-> "inert", _host |-> 1]
          ELSE IF g = 32 THEN [_ownerDocument |-> "inert", _host |-> 3]
          ELSE NoFragment]
  /\ nextFragment = 0
  /\ lastTemplateOp = NoTemplateOp
  /\ lastCreated = [kind |-> "none", ownerDocument |-> NULL]

TemplateFrame == UNCHANGED <<ceVars, treeVars, stackVars, windowVars>>

NextTemplate ==
  \/ CreateDocumentFragment /\ TemplateFrame
  \/ SetTemplateContent /\ TemplateFrame
  \/ OnItemPush /\ StackFrame
  \/ OnItemPop /\ StackFrame


(***************************************************************************)
(* The window: timers (SpecTimers). A handler runs to completion inside    *)
(* its task, so a task and everything its handler calls is one step.       *)
(***************************************************************************)
MaxTimers == 2       \* handles setTimeout and setInterval allocate
MaxArms == 3         \* Node.js timers armed in one behaviour
MaxFrames == 2       \* animation-frame callbacks requested in one behaviour

\* What a handler does when it is invoked: nothing, clear its own handle, close
\* the window, or throw.
Handlers == { "nothing", "clearSelf", "close", "throw" }

\* The integers script passes as handles are written <<hi, lo>>, which stands
\* for hi * 2^16 + lo with lo in 0..2^16 - 1, so that values beyond 32 bits can
\* be given.
\* webIDLConversions.long: the value modulo 2^32, read as a signed 32-bit number.
long(x) ==
  IF x[1] % 65536 >= 32768 THEN ((x[1] % 65536) - 65536) * 65536 + x[2]
  ELSE (x[1] % 65536) * 65536 + x[2]

\* The handles script passes to clearTimeout and clearInterval: 0, the handles
\* that can be allocated, one beyond them, 2^32 + 1 and 2^32 - 1.
HandleInputs ==
  { <<0, h>> : h \in 0..(MaxTimers + 1) } \cup { <<65536, 1>>, <<65535, 65535>> }

Handles == 1..MaxTimers

\* The state of the window the methods work on.
Win ==
  [_document |-> _document, listOfActiveTimers |-> listOfActiveTimers,
   latestTimerId |-> latestTimerId, nodejsTimers |-> nodejsTimers,
   nextNodejsTimer |-> nextNodejsTimer,
   animationFrameCallbackId |-> animationFrameCallbackId,
   mapOfAnimationFrameCallbacks |-> mapOfAnimationFrameCallbacks,
   animationFrameNodejsInterval |-> animationFrameNodejsInterval,
   numberOfOngoingAnimationFrameCallbacks |-> numberOfOngoingAnimationFrameCallbacks,
   nodejsIntervals |-> nodejsIntervals, nextNodejsInterval |-> nextNodejsInterval,
   nextTick |-> nextTick, readyState |-> readyState,
   documentLoadListener |-> documentLoadListener,
   _pageShowingFlag |-> _pageShowingFlag,
   windowLog |-> windowLog, returned |-> undefined]

\* fireAnEvent(type, window) and fireAPageTransitionEvent(type, window): the
\* event is fired on the window.
fireOnWindow(w, type) == [w EXCEPT !.windowLog.events = @ \cup { type }]

\* Window.js 945-956: the listener the initialization step adds to the document.
loadListener(w) ==
  LET fired == fireOnWindow(w, "load") IN
    IF ~fired._document THEN fired
    ELSE IF ~fired._pageShowingFlag
         THEN fireOnWindow([fired EXCEPT !._pageShowingFlag = TRUE], "pageshow")
         ELSE fired

\* A "load" event dispatched on the document reaches the listeners the
\* document has.
dispatchDocumentLoad(w) == IF w.documentLoadListener THEN loadListener(w) ELSE w

\* The initialization step without the check of window.document.
initializationOnClosed(w) ==
  IF w.readyState = "complete" THEN fireOnWindow(w, "load")
  ELSE [w EXCEPT !.documentLoadListener = TRUE]

\* Window.js 937-958: the step process.nextTick runs after construction.
initialization(w) ==
  IF ~w._document THEN w
  ELSE IF w.readyState = "complete" THEN fireOnWindow(w, "load")
  ELSE [w EXCEPT !.documentLoadListener = TRUE]

\* listOfActiveTimers.get(handle): the Node.js timer, or undefined.
getTimer(w, handle) ==
  IF handle \in DOMAIN w.listOfActiveTimers THEN w.listOfActiveTimers[handle]
  ELSE undefined

\* Node.js clearTimeout(nodejsTimer): the timer will not fire.
nodeClearTimeout(w, nodejsTimer) ==
  [w EXCEPT !.nodejsTimers = { t \in @ : t.id # nodejsTimer }]

\* Node.js clearInterval(interval): the interval will not tick again.
nodeClearInterval(w, interval) ==
  [w EXCEPT !.nodejsIntervals = @ \ {interval}]

timerInitializationStepsNewHandle(w, handler, repeat, previousHandle) ==
  IF ~w._document THEN [w EXCEPT !.returned = 0]
  ELSE [w EXCEPT
          !.latestTimerId = @ + 1,
          !.nextNodejsTimer = @ + 1,
          !.nodejsTimers = @ \cup { [id |-> w.nextNodejsTimer + 1,
                                     handle |-> w.latestTimerId + 1,
                                     repeat |-> repeat, handler |-> handler] },
          !.listOfActiveTimers =
             [h \in DOMAIN @ \cup {w.latestTimerId + 1} |->
                IF h = w.latestTimerId + 1 THEN w.nextNodejsTimer + 1 ELSE @[h]],
          !.returned = w.latestTimerId + 1]

timerInitializationStepsOnClosed(w, handler, repeat, previousHandle) ==
  LET handle == IF previousHandle # undefined THEN previousHandle
                ELSE w.latestTimerId + 1
  IN [w EXCEPT
        !.latestTimerId = IF previousHandle # undefined THEN @ ELSE @ + 1,
        !.nextNodejsTimer = @ + 1,
        !.nodejsTimers = @ \cup { [id |-> w.nextNodejsTimer + 1, handle |-> handle,
                                   repeat |-> repeat, handler |-> handler] },
        !.listOfActiveTimers =
           [h \in DOMAIN @ \cup {handle} |->
              IF h = handle THEN w.nextNodejsTimer + 1 ELSE @[h]],
        !.returned = handle]

\* Window.js 534-544 and 569-576: on a window without document 0 is returned;
\* otherwise the handle is the previous one or a new one, a Node.js timer is
\* armed with the task and recorded under the handle.
timerInitializationSteps(w, handler, repeat, previousHandle) ==
  IF ~w._document THEN [w EXCEPT !.returned = 0]
  ELSE LET handle == IF previousHandle # undefined THEN previousHandle
                     ELSE w.latestTimerId + 1
       IN [w EXCEPT
             !.latestTimerId = IF previousHandle # undefined THEN @ ELSE @ + 1,
             !.nextNodejsTimer = @ + 1,
             !.nodejsTimers = @ \cup { [id |-> w.nextNodejsTimer + 1,
                                        handle |-> handle,
                                        repeat |-> repeat, handler |-> handler] },
             !.listOfActiveTimers =
                [h \in DOMAIN @ \cup {handle} |->
                   IF h = handle THEN w.nextNodejsTimer + 1 ELSE @[h]],
             !.returned = handle]

\* Window.js 497-504
setTimeout(w, handler) == timerInitializationSteps(w, handler, FALSE, undefined)

\* Window.js 505-512
setInterval(w, handler) == timerInitializationSteps(w, handler, TRUE, undefined)

\* clearTimeout that leaves the timers of setInterval alone.
clearTimeoutOnlyTimeouts(w, handle) ==
  IF /\ getTimer(w, long(handle)) # undefined
     /\ \A t \in w.nodejsTimers : t.id = getTimer(w, long(handle)) => ~t.repeat
  THEN [nodeClearTimeout(w, getTimer(w, long(handle))) EXCEPT
          !.listOfActiveTimers = [h \in DOMAIN @ \ {long(handle)} |-> @[h]]]
  ELSE w

\* Window.js 514-522
clearTimeout(w, handle) ==
  IF getTimer(w, long(handle)) # undefined
  THEN [nodeClearTimeout(w, getTimer(w, long(handle))) EXCEPT
          !.listOfActiveTimers = [h \in DOMAIN @ \ {long(handle)} |-> @[h]]]
  ELSE w

\* Window.js 523-532
clearInterval(w, handle) ==
  IF getTimer(w, long(handle)) # undefined
  THEN [nodeClearTimeout(w, getTimer(w, long(handle))) EXCEPT
          !.listOfActiveTimers = [h \in DOMAIN @ \ {long(handle)} |-> @[h]]]
  ELSE w

\* Window.js 655-662
stopAllTimers(w) ==
  nodeClearInterval(
    [w EXCEPT !.nodejsTimers =
                 { t \in @ : \A h \in DOMAIN w.listOfActiveTimers :
                               w.listOfActiveTimers[h] # t.id },
              !.listOfActiveTimers = <<>>],
    w.animationFrameNodejsInterval)

\* Window.js 789-818: the window has no child frames; the document, if still
\* there, loses its listeners, is closed (which dispatches "load" on it) and is
\* deleted; the timers are stopped.
close(w) ==
  stopAllTimers(
    IF w._document
    THEN [dispatchDocumentLoad([w EXCEPT !.documentLoadListener = FALSE])
            EXCEPT !._document = FALSE]
    ELSE w)

\* Window.js 550-558: the handler is applied; what it throws is reported.
applyHandler(w, t) ==
  LET called == [w EXCEPT !.windowLog.invoked[t.handle] = @ + 1]
  IN CASE t.handler = "nothing" -> called
       [] t.handler = "clearSelf" ->
            IF t.repeat THEN clearInterval(called, <<0, t.handle>>)
            ELSE clearTimeout(called, <<0, t.handle>>)
       [] t.handler = "close" -> close(called)
       [] t.handler = "throw" -> [called EXCEPT !.windowLog.reported = @ + 1]

taskIgnoresList(w, t) ==
  LET after == applyHandler([w EXCEPT !.nodejsTimers = @ \ {t}], t)
  IN IF t.repeat
     THEN timerInitializationSteps(after, t.handler, TRUE, t.handle)
     ELSE [after EXCEPT !.listOfActiveTimers = [h \in DOMAIN @ \ {t.handle} |-> @[h]]]

taskRunsTwice(w, t) ==
  LET after == applyHandler(applyHandler([w EXCEPT !.nodejsTimers = @ \ {t}], t), t)
  IN IF getTimer(after, t.handle) # undefined
     THEN IF t.repeat
          THEN timerInitializationSteps(after, t.handler, TRUE, t.handle)
          ELSE [after EXCEPT
                  !.listOfActiveTimers = [h \in DOMAIN @ \ {t.handle} |-> @[h]]]
     ELSE after

\* A task that an exception of the handler ends: it is reported and the rest
\* of the task is skipped.
taskStopsOnThrow(w, t) ==
  LET fired == [w EXCEPT !.nodejsTimers = @ \ {t}]
  IN IF getTimer(fired, t.handle) = undefined THEN fired
     ELSE LET after == applyHandler(fired, t)
          IN IF t.handler # "throw" /\ getTimer(after, t.handle) # undefined
             THEN IF t.repeat
                  THEN timerInitializationSteps(after, t.handler, TRUE, t.handle)
                  ELSE [after EXCEPT
                          !.listOfActiveTimers =
                             [h \in DOMAIN @ \ {t.handle} |-> @[h]]]
             ELSE after

\* Window.js 545-567: the task of the Node.js timer t, which has fired.
task(w, t) ==
  LET fired == [w EXCEPT !.nodejsTimers = @ \ {t}]
  IN IF getTimer(fired, t.handle) = undefined THEN fired
     ELSE LET after == applyHandler(fired, t)
          IN IF getTimer(after, t.handle) # undefined
             THEN IF t.repeat
                  THEN timerInitializationSteps(after, t.handler, TRUE, t.handle)
                  ELSE [after EXCEPT
                          !.listOfActiveTimers =
                             [h \in DOMAIN @ \ {t.handle} |-> @[h]]]
             ELSE after

(***************************************************************************)
(* The window: animation frames (SpecFrames). A frame run and everything   *)
(* its callbacks call is one step.                                         *)
(***************************************************************************)
\* animationFrameNodejsInterval = null
NoInterval == 0

\* What a callback does when it is invoked: nothing, request another frame,
\* cancel the callback requested right after it, throw, or close the window.
Callbacks == { "nothing", "request", "cancelNext", "throw", "close" }

\* webIDLConversions["unsigned long"]: the value modulo 2^32, as <<hi, lo>>.
unsignedLong(x) == <<x[1] % 65536, x[2]>>

\* The handles script passes to cancelAnimationFrame: 0, the handles that can be
\* allocated, one beyond them, and 2^32 + 1.
FrameHandleInputs == { <<0, h>> : h \in 0..(MaxFrames + 1) } \cup { <<65536, 1>> }

\* mapOfAnimationFrameCallbacks.keys(), in insertion order
callbackKeys(w) ==
  [i \in 1..Len(w.mapOfAnimationFrameCallbacks) |->
     w.mapOfAnimationFrameCallbacks[i].handle]

\* mapOfAnimationFrameCallbacks.has(handle), handle given as <<hi, lo>>
hasCallback(w, handle) ==
  handle[1] = 0 /\ handle[2] \in Range(callbackKeys(w))

\* mapOfAnimationFrameCallbacks.get(handle)
getCallback(w, handle) ==
  w.mapOfAnimationFrameCallbacks[IndexOf(callbackKeys(w), handle[2])].callback

\* Window.js 604-618
requestAnimationFrame(w, callback) ==
  LET set == [w EXCEPT
                !.animationFrameCallbackId = @ + 1,
                !.mapOfAnimationFrameCallbacks =
                   Append(@, [handle |-> w.animationFrameCallbackId + 1,
                              callback |-> callback]),
                !.numberOfOngoingAnimationFrameCallbacks = @ + 1,
                !.returned = w.animationFrameCallbackId + 1]
  IN IF set.numberOfOngoingAnimationFrameCallbacks = 1
     THEN [set EXCEPT !.nextNodejsInterval = @ + 1,
                      !.nodejsIntervals = @ \cup {w.nextNodejsInterval + 1},
                      !.animationFrameNodejsInterval = w.nextNodejsInterval + 1]
     ELSE set

\* removeAnimationFrameCallback that counts down whether or not the map has
\* the handle.
removeAnimationFrameCallbackUnchecked(w, handle) ==
  LET counted ==
        IF w.numberOfOngoingAnimationFrameCallbacks - 1 = 0
        THEN nodeClearInterval(
               [w EXCEPT !.numberOfOngoingAnimationFrameCallbacks = @ - 1],
               w.animationFrameNodejsInterval)
        ELSE [w EXCEPT !.numberOfOngoingAnimationFrameCallbacks = @ - 1]
  IN [counted EXCEPT
        !.mapOfAnimationFrameCallbacks =
           SelectSeq(@, LAMBDA e : ~(handle[1] = 0 /\ e.handle = handle[2]))]

\* Window.js 643-652
removeAnimationFrameCallback(w, handle) ==
  LET counted ==
        IF hasCallback(w, handle)
        THEN IF w.numberOfOngoingAnimationFrameCallbacks - 1 = 0
             THEN nodeClearInterval(
                    [w EXCEPT !.numberOfOngoingAnimationFrameCallbacks = @ - 1],
                    w.animationFrameNodejsInterval)
             ELSE [w EXCEPT !.numberOfOngoingAnimationFrameCallbacks = @ - 1]
        ELSE w
  IN [counted EXCEPT
        !.mapOfAnimationFrameCallbacks =
           SelectSeq(@, LAMBDA e : ~(handle[1] = 0 /\ e.handle = handle[2]))]

\* Window.js 620-624. The log keeps the handles cancelled while pending.
cancelAnimationFrame(w, handle) ==
  removeAnimationFrameCallback(
    IF hasCallback(w, unsignedLong(handle))
    THEN [w EXCEPT !.windowLog.cancelled = @ \cup {unsignedLong(handle)[2]}]
    ELSE w,
    unsignedLong(handle))

\* Window.js 634-638: the callback is called; what it throws is reported. The
\* log keeps the handles invoked, in order, and those requested by callbacks.
applyCallback(w, handle, callback) ==
  LET called == [w EXCEPT !.windowLog.frames = Append(@, handle)]
  IN CASE callback = "nothing" -> called
       [] callback = "request" ->
            [requestAnimationFrame(called, "nothing") EXCEPT
               !.windowLog.nested = @ \cup {w.animationFrameCallbackId + 1}]
       [] callback = "cancelNext" -> cancelAnimationFrame(called, <<0, handle + 1>>)
       [] callback = "throw" -> [called EXCEPT !.windowLog.reported = @ + 1]
       [] callback = "close" -> close(called)

RECURSIVE runLiveMap(_)
runLiveMap(w) ==
  IF w.mapOfAnimationFrameCallbacks = <<>> THEN w
  ELSE runLiveMap(
         applyCallback(
           removeAnimationFrameCallback(
             w, <<0, w.mapOfAnimationFrameCallbacks[1].handle>>),
           w.mapOfAnimationFrameCallbacks[1].handle,
           w.mapOfAnimationFrameCallbacks[1].callback))

RECURSIVE runUntilThrow(_, _)
runUntilThrow(w, callbackHandles) ==
  IF callbackHandles = <<>> THEN w
  ELSE IF hasCallback(w, <<0, Head(callbackHandles)>>)
       THEN IF getCallback(w, <<0, Head(callbackHandles)>>) = "throw"
            THEN applyCallback(
                   removeAnimationFrameCallback(w, <<0, Head(callbackHandles)>>),
                   Head(callbackHandles), "throw")
            ELSE runUntilThrow(
                   applyCallback(
                     removeAnimationFrameCallback(w, <<0, Head(callbackHandles)>>),
                     Head(callbackHandles),
                     getCallback(w, <<0, Head(callbackHandles)>>)),
                   Tail(callbackHandles))
       ELSE runUntilThrow(w, Tail(callbackHandles))

\* Window.js 629-640: the loop over the snapshot of handles. The window after
\* a callback is one value, `called`, on which the rest of the loop works.
RECURSIVE runCallbacks(_, _)
runCallbacks(w, callbackHandles) ==
  IF callbackHandles = <<>> THEN w
  ELSE IF hasCallback(w, <<0, Head(callbackHandles)>>)
       THEN CHOOSE done \in
              { runCallbacks(called, Tail(callbackHandles)) :
                  called \in
                    { applyCallback(
                        removeAnimationFrameCallback(
                          w, <<0, Head(callbackHandles)>>),
                        Head(callbackHandles),
                        getCallback(w, <<0, Head(callbackHandles)>>)) } } : TRUE
       ELSE runCallbacks(w, Tail(callbackHandles))

runAnimationFrameCallbacksLive(w) == runLiveMap(w)

runAnimationFrameCallbacksUntilThrow(w) == runUntilThrow(w, callbackKeys(w))

\* Window.js 626-641
runAnimationFrameCallbacks(w) == runCallbacks(w, callbackKeys(w))

WithinWindowBounds(w) ==
  /\ w.latestTimerId <= MaxTimers
  /\ w.nextNodejsTimer <= MaxArms
  /\ w.animationFrameCallbackId
       + Cardinality({ i \in 1..Len(w.mapOfAnimationFrameCallbacks) :
                         w.mapOfAnimationFrameCallbacks[i].callback = "request" })
       <= MaxFrames

InstallWin(w) ==
  /\ WithinWindowBounds(w)
  /\ _document' = w._document
  /\ listOfActiveTimers' = w.listOfActiveTimers
  /\ latestTimerId' = w.latestTimerId
  /\ nodejsTimers' = w.nodejsTimers
  /\ nextNodejsTimer' = w.nextNodejsTimer
  /\ animationFrameCallbackId' = w.animationFrameCallbackId
  /\ mapOfAnimationFrameCallbacks' = w.mapOfAnimationFrameCallbacks
  /\ animationFrameNodejsInterval' = w.animationFrameNodejsInterval
  /\ numberOfOngoingAnimationFrameCallbacks' =
       w.numberOfOngoingAnimationFrameCallbacks
  /\ nodejsIntervals' = w.nodejsIntervals
  /\ nextNodejsInterval' = w.nextNodejsInterval
  /\ nextTick' = w.nextTick
  /\ readyState' = w.readyState
  /\ documentLoadListener' = w.documentLoadListener
  /\ _pageShowingFlag' = w._pageShowingFlag
  /\ windowLog' = w.windowLog

NoCall == [op |-> "none", handle |-> 0, returned |-> 0, repeat |-> FALSE,
           handler |-> "none", cancelled |-> {}, active |-> FALSE]

\* The timer of setInterval is active under the handle.
isInterval(handle) ==
  \E t \in nodejsTimers : t.handle = handle /\ t.id = getTimer(Win, handle)
                             /\ t.repeat

\* Script calls requestAnimationFrame(callback) on a window that pretends to be
\* visual.
RequestAnimationFrame ==
  \E callback \in Callbacks :
    /\ InstallWin(requestAnimationFrame(Win, callback))
    /\ lastCall' = [NoCall EXCEPT
                      !.op = "requestAnimationFrame", !.handler = callback,
                      !.returned = requestAnimationFrame(Win, callback).returned]

\* Script calls cancelAnimationFrame(handle).
CancelAnimationFrame ==
  \E handle \in FrameHandleInputs :
    /\ InstallWin(cancelAnimationFrame(Win, handle))
    /\ lastCall' = [NoCall EXCEPT !.op = "cancelAnimationFrame",
                                  !.handle = unsignedLong(handle)[2]]

\* A Node.js interval created for animation frames ticks: one frame run, whose
\* outcome is the window w.
Tick ==
  \E interval \in nodejsIntervals :
    \E w \in { runAnimationFrameCallbacks(Win) } :
      /\ InstallWin(w)
      /\ lastCall' = [NoCall EXCEPT
                        !.op = "tick", !.handle = interval,
                        !.cancelled = w.windowLog.cancelled
                                        \ windowLog.cancelled]

\* Script calls setTimeout(handler).
SetTimeout ==
  \E handler \in Handlers :
    /\ InstallWin(setTimeout(Win, handler))
    /\ lastCall' = [NoCall EXCEPT !.op = "setTimeout", !.handler = handler,
                                  !.returned = setTimeout(Win, handler).returned]

\* Script calls setInterval(handler).
SetInterval ==
  \E handler \in Handlers :
    /\ InstallWin(setInterval(Win, handler))
    /\ lastCall' = [NoCall EXCEPT !.op = "setInterval", !.handler = handler,
                                  !.repeat = TRUE,
                                  !.returned = setInterval(Win, handler).returned]

\* Script calls clearTimeout(handle).
ClearTimeout ==
  \E handle \in HandleInputs :
    /\ InstallWin(clearTimeout(Win, handle))
    /\ lastCall' = [NoCall EXCEPT !.op = "clearTimeout", !.handle = long(handle),
                                  !.active = getTimer(Win, long(handle)) # undefined,
                                  !.repeat = isInterval(long(handle))]

\* Script calls clearInterval(handle).
ClearInterval ==
  \E handle \in HandleInputs :
    /\ InstallWin(clearInterval(Win, handle))
    /\ lastCall' = [NoCall EXCEPT !.op = "clearInterval", !.handle = long(handle),
                                  !.active = getTimer(Win, long(handle)) # undefined,
                                  !.repeat = isInterval(long(handle))]

\* A Node.js timer fires and its task runs.
Task ==
  \E t \in nodejsTimers :
    /\ InstallWin(task(Win, t))
    /\ lastCall' = [NoCall EXCEPT !.op = "task", !.handle = t.handle,
                                  !.repeat = t.repeat, !.handler = t.handler]

\* The next tick after construction: the deferred initialization step runs.
NextTick ==
  /\ nextTick
  /\ InstallWin([initialization(Win) EXCEPT !.nextTick = FALSE])
  /\ lastCall' = [NoCall EXCEPT !.op = "nextTick"]

\* The document finishes loading: it becomes complete and "load" is
\* dispatched on it.
DocumentLoad ==
  /\ readyState = "loading"
  /\ InstallWin(dispatchDocumentLoad([Win EXCEPT !.readyState = "complete"]))
  /\ lastCall' = [NoCall EXCEPT !.op = "documentLoad"]

\* Script calls close() on a window that is open.
Close ==
  /\ _document
  /\ InstallWin(close(Win))
  /\ lastCall' = [NoCall EXCEPT !.op = "close"]

WindowInit ==
  /\ _document = TRUE
  /\ listOfActiveTimers = <<>>
  /\ latestTimerId = 0
  /\ nodejsTimers = {}
  /\ nextNodejsTimer = 0
  /\ animationFrameCallbackId = 0
  /\ mapOfAnimationFrameCallbacks = <<>>
  /\ animationFrameNodejsInterval = NoInterval
  /\ numberOfOngoingAnimationFrameCallbacks = 0
  /\ nodejsIntervals = {}
  /\ nextNodejsInterval = 0
  /\ nextTick = TRUE
  /\ readyState = "loading"
  /\ documentLoadListener = FALSE
  /\ _pageShowingFlag = FALSE
  /\ windowLog = [invoked |-> [h \in Handles |-> 0], reported |-> 0,
                  frames |-> <<>>, cancelled |-> {}, nested |-> {},
                  events |-> {}]
  /\ lastCall = NoCall

\* The parser takes no part in these operations.
WindowFrame == UNCHANGED <<ceVars, treeVars, stackVars, templateVars>>

NextFrames ==
  \/ RequestAnimationFrame /\ WindowFrame
  \/ CancelAnimationFrame /\ WindowFrame
  \/ Tick /\ WindowFrame
  \/ Close /\ WindowFrame

NextTimers ==
  \/ SetTimeout /\ WindowFrame
  \/ SetInterval /\ WindowFrame
  \/ ClearTimeout /\ WindowFrame
  \/ ClearInterval /\ WindowFrame
  \/ Task /\ WindowFrame
  \/ Close /\ WindowFrame

\* The life of a window from its construction (SpecWindow). Node.js runs the
\* next tick before any interval, so a frame run waits for the initialization
\* step; script running in the tick of the construction calls the methods.
NextWindow ==
  \/ NextTick /\ WindowFrame
  \/ DocumentLoad /\ WindowFrame
  \/ RequestAnimationFrame /\ WindowFrame
  \/ CancelAnimationFrame /\ WindowFrame
  \/ ~nextTick /\ Tick /\ WindowFrame
  \/ Close /\ WindowFrame

\* Node creation under the stack of open elements (SpecOwner).
NextOwner ==
  \/ CreateNode /\ TemplateFrame
  \/ CreateDocumentFragment /\ TemplateFrame
  \/ OnItemPush /\ StackFrame
  \/ OnItemPop /\ StackFrame

Init == CEInit /\ TreeInit /\ StackInit /\ TemplateInit /\ WindowInit

SpecCE == Init /\ [][NextCE]_vars

SpecTree == Init /\ [][NextTree]_vars

SpecStack == Init /\ [][NextStack]_vars

SpecTemplate == Init /\ [][NextTemplate]_vars

SpecShape == Init /\ [][NextShape]_vars

SpecAttr == Init /\ [][NextAttr]_vars

SpecObserver == Init /\ [][NextObserver]_vars

SpecTimers == Init /\ [][NextTimers]_vars

SpecFrames == Init /\ [][NextFrames]_vars

SpecOwner == Init /\ [][NextOwner]_vars

SpecWindow == Init /\ [][NextWindow]_vars

\* An interval that is active keeps ticking.
SpecFramesFair == SpecFrames /\ WF_vars(Tick /\ WindowFrame)

(***************************************************************************)
(* Claims about createElement (SpecCE)                                     *)
(***************************************************************************)

\* C1: a createElement call that found a definition outside fragment parsing
\* has pushed its scope before construction, has popped that scope before it
\* invokes reactions, and when it returns it has popped the scope it pushed and
\* no reaction queued in that scope is still pending.
C1_OrderedScope ==
  /\ \A i \in 1..Len(callStack) :
       callStack[i].will =>
         /\ callStack[i].scope # 0
         /\ callStack[i].pc = "construct" => callStack[i].popped = 0
         /\ callStack[i].pc \in {"invoke", "reaction"} => callStack[i].popped # 0
  /\ (lastExit.how = "return" /\ lastExit.will) =>
       /\ lastExit.popped = lastExit.scope
       /\ PendingOf(lastExit.scope) = {}

\* C2: nesting is LIFO: the scope a createElement call pops is the one it
\* pushed, and while a reaction queued in the scope of X runs, no reaction
\* queued in the scope of a Y created by X's constructor is still pending.
C2_NestedLifo ==
  \A i \in 1..Len(callStack) :
    /\ callStack[i].pc \in {"invoke", "reaction"} =>
         callStack[i].popped = callStack[i].scope
    /\ (callStack[i].pc = "reaction" /\ callStack[i].cur.scope # 0) =>
         { r \in Pending : r.outer = callStack[i].cur.scope } = {}

\* C3: every createElement call, returning or throwing, leaves the reaction
\* stack at the depth it had when the call began, and the stack is empty
\* between top-level operations.
C3_DepthRestored ==
  /\ lastExit.how # "none" => lastExit.depthOut = lastExit.depthIn
  /\ Idle => Depth = 0

\* C4: a call outside fragment parsing whose token has a definition for
\* (namespace, localName, is-value) runs with script execution enabled inside
\* a scope it pushed.
C4_LookupByIsValue ==
  \A i \in 1..Len(callStack) :
    LET f == callStack[i]
    IN (/\ ~f.fragment
        /\ lookupCEDefinition(f.tok.namespace, f.tok.localName,
                              isValueOf(f.tok.attrs)) # NULL)
       => (f.will /\ f.scope # 0)

\* C5: a createElement call of a fragment parser never enables script
\* execution, pushes or pops no scope, invokes no reaction, and leaves the
\* reaction stack and the dynamic-markup-insertion counter as they were.
C5_FragmentLeavesStack ==
  /\ \A i \in 1..Len(callStack) :
       callStack[i].fragment =>
         /\ ~callStack[i].will
         /\ callStack[i].scope = 0 /\ callStack[i].popped = 0
         /\ callStack[i].pc = "construct"
         /\ i = Len(callStack)
         /\ customElementReactionsStack = callStack[i].stackIn
         /\ throwCounter = callStack[i].counterIn
  /\ (lastExit.how # "none" /\ lastExit.fragment) =>
       /\ ~lastExit.will
       /\ lastExit.scope = 0 /\ lastExit.popped = 0
       /\ lastExit.stackSame /\ lastExit.counterSame
       /\ lastExit.depthOut = lastExit.depthIn

\* A fragment parser's createElement has returned a defined custom element,
\* called from a constructor while a scope was on the stack.
C5_Witness ==
  /\ lastExit.how = "return"
  /\ lastExit.fragment
  /\ lastExit.localName = "x-a"
  /\ lastExit.depthIn > 0
  /\ callStack # <<>>

\* The identities of the reactions of a queue.
C15_Ids(q) == { q[i].id : i \in 1..Len(q) }

\* The reactions a call has invoked so far from the scope it popped.
C15_InvokedBy(scope) ==
  { reactionLog.invoked[i].id :
      i \in { j \in 1..Len(reactionLog.invoked) : reactionLog.invoked[j].by = scope } }

\* C15: when the scope pushed by createElement is popped, an exception raised
\* by a reaction is reported, the reactions that follow it in the batch are
\* still invoked, and createElement returns: a call never ends with an
\* exception once it has popped its scope, a call that returns has invoked
\* every reaction of its batch, and the exceptions reported are the ones the
\* reactions raised.
C15_ReactionErrorsIsolated ==
  /\ lastExit.how = "throw" => lastExit.pc = "construct"
  /\ (lastExit.how = "return" /\ lastExit.will) =>
       C15_Ids(lastExit.batch) \subseteq C15_InvokedBy(lastExit.popped)
  /\ \A i \in 1..Len(callStack) :
       callStack[i].pc \in {"invoke", "reaction"} =>
         C15_Ids(callStack[i].batch) =
           C15_InvokedBy(callStack[i].popped) \cup C15_Ids(callStack[i].queue)
  /\ reactionLog.reported \subseteq reactionLog.threw
  /\ ~exc => reactionLog.threw = reactionLog.reported
  /\ \A r \in reactionLog.threw \ reactionLog.reported :
       \E i \in 1..Len(callStack) :
         callStack[i].pc = "reaction" /\ callStack[i].cur.id = r

\* The first reaction of a batch of two raised an exception, it was reported,
\* the second reaction was invoked after it and createElement returned.
C15_Witness ==
  /\ lastExit.how = "return"
  /\ Len(lastExit.batch) = 2
  /\ lastExit.batch[1].id \in reactionLog.reported
  /\ \E i, j \in 1..Len(reactionLog.invoked) :
       /\ i < j
       /\ reactionLog.invoked[i].id = lastExit.batch[1].id
       /\ reactionLog.invoked[j].id = lastExit.batch[2].id

\* C16: a reaction is enqueued in the scope on top of the stack and in no other
\* (in the backup queue when the stack is empty), and the call that pops a
\* scope invokes the reactions enqueued in that scope in the order they were
\* enqueued, all of them before it returns.
C16_FifoPerScope ==
  /\ \A i \in 1..Depth : \A j \in 1..Len(customElementReactionsStack[i].q) :
       customElementReactionsStack[i].q[j].scope = customElementReactionsStack[i].id
  /\ \A j \in 1..Len(backupQueue) : backupQueue[j].scope = 0
  /\ \A i \in 1..Len(reactionLog.invoked) :
       /\ reactionLog.invoked[i].scope = reactionLog.invoked[i].by
       /\ \A j \in 1..Len(reactionLog.invoked) :
            (i < j /\ reactionLog.invoked[i].by = reactionLog.invoked[j].by)
              => reactionLog.invoked[i].id < reactionLog.invoked[j].id
  /\ \A i \in 1..Len(callStack) :
       callStack[i].pc \in {"invoke", "reaction"} =>
         \A r \in C15_Ids(callStack[i].queue) :
           \A v \in C15_InvokedBy(callStack[i].popped) : v < r
  /\ (lastExit.how = "return" /\ lastExit.will) =>
       \A j \in 1..Len(lastExit.batch) :
         \E i \in 1..Len(reactionLog.invoked) :
           /\ reactionLog.invoked[i].id = lastExit.batch[j].id
           /\ reactionLog.invoked[i].by = lastExit.popped

\* A call has returned after invoking the two reactions enqueued in its scope,
\* in the order they were enqueued.
C16_Witness ==
  /\ lastExit.how = "return"
  /\ Len(lastExit.batch) = 2
  /\ Len(reactionLog.invoked) = 2
  /\ reactionLog.invoked[1].id = lastExit.batch[1].id
  /\ reactionLog.invoked[2].id = lastExit.batch[2].id
  /\ reactionLog.invoked[1].id < reactionLog.invoked[2].id
  /\ reactionLog.invoked[1].by = lastExit.scope

(***************************************************************************)
(* Claims about text insertion (SpecTree)                                  *)
(***************************************************************************)

\* C6, as amended: after a run of consecutive insertText calls on one parent,
\* with no other operation on that parent's children in between, the parent's
\* last child is a Text node whose data is the data that node had when the run
\* began (empty when the run created it) followed by the inserted strings in
\* call order; the run created one Text node when the parent's last child was
\* absent or no Text node, and none otherwise.
C6_RunMergesIntoLastText ==
  run.parent # undefined =>
    LET last == lastChild(children, run.parent)
    IN /\ IsText(last)
       /\ data[last] = run.base \o run.cat
       /\ run.made = (IF run.hadText THEN 0 ELSE 1)
       /\ TextChildren(children, run.parent) = run.texts + run.made

\* C6 as stated: after a run of consecutive insertText calls on one parent, the
\* parent's last child is a Text node whose data is the concatenation of the
\* inserted strings in call order. Stated here for parents none of whose Text
\* children was created by insertTextBefore.
C6_Original ==
  (/\ run.parent # undefined
   /\ \A t \in TextIds : origin[t] # "insertTextBefore") =>
    LET last == lastChild(children, run.parent)
    IN /\ IsText(last)
       /\ data[last] = run.cat
       /\ TextChildren(children, run.parent) = run.texts + run.made

\* Two consecutive insertText calls have produced one Text node holding both
\* strings.
C6_Witness ==
  /\ run.parent # undefined
  /\ Len(run.cat) = 2
  /\ run.made = 1
  /\ ~run.hadText

\* C7: when the reference node's previous sibling is no Text node,
\* insertTextBefore creates a Text node holding the data, and after the call
\* that node is the reference node's previous sibling.
C7_NewTextBeforeReference ==
  (lastOp.op = "insertTextBefore" /\ ~lastOp.merged) =>
    /\ data[10 + nextText] = lastOp.text
    /\ parentOf(children, 10 + nextText) = lastOp.parent
    /\ previousSibling(children, lastOp.ref) = 10 + nextText

\* C8: when the reference node's previous sibling is a Text node,
\* insertTextBefore appends the data to it and creates no node: the children
\* of every node are as before.
C8_MergeKeepsChildren ==
  [][(/\ lastOp'.op = "insertTextBefore"
      /\ IsText(previousSibling(children, lastOp'.ref)))
     => (/\ children' = children
         /\ nextText' = nextText
         /\ data' = [data EXCEPT ![previousSibling(children, lastOp'.ref)] =
                                    @ \o lastOp'.text])]_vars

\* insertTextBefore has merged its data into the Text node before the reference.
C8_Witness ==
  /\ lastOp.op = "insertTextBefore"
  /\ lastOp.merged
  /\ IsText(previousSibling(children, lastOp.ref))

\* The registrations with option `type` whose scope covers `target`.
C9_Interested(r, type, target) ==
  /\ IF type = "childList" THEN r.childList ELSE r.characterData
  /\ \/ r.target = target
     \/ r.subtree /\ r.target \in inclusiveAncestors(children, target)

\* C9: a merging insertText or insertTextBefore queues one characterData record
\* for every interested registration and no other record; a call that creates a
\* Text node queues one childList record for every interested registration and
\* no other record.
C9_MergeQueuesCharacterData ==
  [][lastOp'.op \in {"insertText", "insertTextBefore"} =>
       LET into == IF lastOp'.op = "insertText"
                   THEN lastChild(children, lastOp'.parent)
                   ELSE previousSibling(children, lastOp'.ref)
       IN \A r \in Registrations :
            pending'[r.id] =
              IF IsText(into)
              THEN IF C9_Interested(r, "characterData", into)
                   THEN Append(pending[r.id],
                               MutationRecord("characterData", into, <<>>, <<>>,
                                              <<>>))
                   ELSE pending[r.id]
              ELSE IF C9_Interested(r, "childList", lastOp'.parent)
                   THEN Append(pending[r.id],
                               MutationRecord("childList", lastOp'.parent,
                                              <<10 + nextText'>>, <<>>, <<>>))
                   ELSE pending[r.id]]_vars

\* A merge under the observed root has queued a characterData record for the
\* registration on the root, and nothing for the registration on element 2.
C9_Witness ==
  /\ lastOp.op \in {"insertText", "insertTextBefore"}
  /\ lastOp.merged
  /\ pending[1] # <<>>
  /\ pending[1][Len(pending[1])].type = "characterData"
  /\ pending[2] = <<>>

(***************************************************************************)
(* Claims about the structural operations (SpecShape)                      *)
(***************************************************************************)

\* The tree is acyclic, a node has at most one parent and occurs once among
\* that parent's children.
C13_Shape ==
  /\ \A n \in Nodes : n \notin descendants(children, n)
  /\ \A n \in Nodes : Cardinality({ p \in Nodes : n \in Range(children[p]) }) <= 1
  /\ \A p \in Nodes : \A i, j \in 1..Len(children[p]) :
       children[p][i] = children[p][j] => i = j

\* appendChild puts the node last, insertBefore puts it immediately before the
\* reference child, detachNode takes the node out; the order of the other
\* children and the children of every other node are kept, and an operation
\* that fails changes nothing.
C13_Order ==
  /\ (lastOp'.op \in {"appendChild", "insertBefore"} /\ lastOp'.error # "none")
       => children' = children
  /\ (lastOp'.op \in {"appendChild", "insertBefore", "detachNode"}
      /\ lastOp'.error = "none")
       => LET p == lastOp'.parent
              kids == children[p]
          IN /\ lastOp'.op = "appendChild"
                  => children' = [children EXCEPT ![p] = kids \o <<lastOp'.node>>]
             /\ lastOp'.op = "insertBefore"
                  => \E i \in 1..Len(kids) :
                       /\ kids[i] = lastOp'.ref
                       /\ children' = [children EXCEPT ![p] =
                                         SubSeq(kids, 1, i - 1) \o <<lastOp'.node>>
                                           \o SubSeq(kids, i, Len(kids))]
             /\ lastOp'.op = "detachNode"
                  => children' = [children EXCEPT ![p] =
                                    SelectSeq(kids, LAMBDA x : x # lastOp'.node)]

C14_SubtreeDetachedWhole ==
  [][lastOp'.op = "detachNode" =>
       LET node == lastOp'.node
           p == lastOp'.parent
       IN /\ node \notin Range(children'[p])
          /\ descendants(children', p)
               \cap ({node} \cup descendants(children, node)) = {}
          /\ parentOf(children', node) = undefined
          /\ children'[node] = children[node]
          /\ descendants(children', node) = descendants(children, node)]_vars

\* An element that has a child has been detached from its parent.
C14_Witness ==
  /\ lastOp.op = "detachNode"
  /\ children[lastOp.node] # <<>>
  /\ parentOf(children, lastOp.node) = undefined

\* C19: the observer registered on element 1 with subtree and childList gets
\* exactly one record, of type childList with the new node as its addedNodes,
\* when appendChild puts a node under a descendant of element 1; nothing else
\* is queued for that insertion.
C19_OneRecordForGrandchild ==
  [][(/\ lastOp'.op = "appendChild"
      /\ lastOp'.error = "none"
      /\ lastOp'.parent # 1
      /\ 1 \in inclusiveAncestors(children, lastOp'.parent)) =>
       /\ Len(pending'[1]) = Len(pending[1]) + 1
       /\ SubSeq(pending'[1], 1, Len(pending[1])) = pending[1]
       /\ pending'[1][Len(pending'[1])].type = "childList"
       /\ pending'[1][Len(pending'[1])].target = lastOp'.parent
       /\ pending'[1][Len(pending'[1])].addedNodes = <<lastOp'.node>>
       /\ pending'[1][Len(pending'[1])].removedNodes = <<>>]_vars

\* A node was appended to a child of element 1, and the observer of element 1
\* holds the one record of it.
C19_Witness ==
  /\ lastOp.op = "appendChild"
  /\ lastOp.error = "none"
  /\ parentOf(children, lastOp.parent) = 1
  /\ Len(pending[1]) = 1
  /\ pending[1][1].addedNodes = <<lastOp.node>>

\* C20: once an observer has been disconnected, takeRecords() on it returns the
\* empty sequence at every later point, whatever tree, attribute or
\* character-data mutations happen under its former target.
C20_DisconnectedTakesNothing ==
  \A r \in disconnected : pending[r] = <<>>

\* The observer of element 1 is disconnected and text has just been merged into
\* a Text node under element 1, a change its registration asked for.
C20_Witness ==
  /\ 1 \in disconnected
  /\ lastOp.op = "insertText"
  /\ lastOp.merged
  /\ 1 \in inclusiveAncestors(children, lastOp.parent)
  /\ attributes[1] # <<>>

(***************************************************************************)
(* Claims about attributes and the dataset (SpecAttr)                      *)
(***************************************************************************)

\* The names of a list of attributes, in order.
C17_Names(attrs) == [i \in 1..Len(attrs) |-> attrs[i].name]

\* The position of the attribute that yields the supported property name p.
C17_Source(attrs, p) ==
  CHOOSE i \in 1..Len(attrs) :
    /\ dataAttrRe(attrs[i].name).matches
    /\ attrCamelCase(dataAttrRe(attrs[i].name).rest) = p

\* No two attributes of an element have the same name, and the supported
\* property names of its dataset are those of its data- attributes, each once,
\* in the order of the attributes.
C17_Enumeration ==
  \A e \in Elements :
    LET attrs == attributes[e]
        names == supportedPropertyNames(attrs)
    IN /\ \A i, j \in 1..Len(attrs) : attrs[i].name = attrs[j].name => i = j
       /\ Len(names) = Cardinality({ i \in 1..Len(attrs) :
                                       dataAttrRe(attrs[i].name).matches })
       /\ \A i, j \in 1..Len(names) :
            i < j => C17_Source(attrs, names[i]) < C17_Source(attrs, names[j])

\* A set of a name that is present changes one value and no name or position;
\* a set of a name that is not present appends one attribute after the others.
C17_Step ==
  LET e == lastOp'.parent
      before == attributes[e]
      after == attributes'[e]
  IN /\ (lastOp'.op = "datasetSet" /\ lastOp'.error = "none") =>
          /\ \A o \in Elements \ {e} : attributes'[o] = attributes[o]
          /\ namedGet(after, lastOp'.name) = lastOp'.value
          /\ IF lastOp'.name \in Range(supportedPropertyNames(before))
             THEN /\ \E i \in 1..Len(before) :
                       after = [before EXCEPT ![i].value = lastOp'.value]
                  /\ supportedPropertyNames(after) = supportedPropertyNames(before)
             ELSE /\ Len(after) = Len(before) + 1
                  /\ SubSeq(after, 1, Len(before)) = before
                  /\ after[Len(after)].value = lastOp'.value
                  /\ supportedPropertyNames(after) =
                       Append(supportedPropertyNames(before), lastOp'.name)
     /\ lastOp'.op = "adoptAttributes" =>
          LET given == lastOp'.attrs
              fresh == SelectSeq(C17_Names(given),
                                 LAMBDA n : n \notin Range(C17_Names(before)))
          IN /\ \A o \in Elements \ {e} : attributes'[o] = attributes[o]
             /\ C17_Names(after) = C17_Names(before) \o fresh
             /\ \A i \in 1..Len(after) :
                  IF \E k \in 1..Len(given) : given[k].name = after[i].name
                  THEN \E k \in 1..Len(given) :
                         given[k].name = after[i].name /\ given[k].value = after[i].value
                  ELSE after[i] = before[i]

\* C17: attribute enumeration order is insertion order: a name not yet present
\* is appended after all attributes, a name that is present (set by
\* adoptAttributes or by the dataset setter) has only its value changed, and
\* the dataset's supported property names are enumerated in that order.
C17_InsertionOrder == []C17_Enumeration /\ [][C17_Step]_vars

\* The dataset setter has changed the value of the first of two attributes:
\* data-a-b, set through the property name "aB".
C17_Witness ==
  /\ lastOp.op = "datasetSet"
  /\ lastOp.error = "none"
  /\ lastOp.name = <<"a", "B">>
  /\ Len(attributes[lastOp.parent]) = 2
  /\ attributes[lastOp.parent][1] =
       [name |-> DataPrefix \o <<"a", "-", "b">>, value |-> lastOp.value]
  /\ lastOp.value = "y"

\* C18: setting a dataset property whose name has a hyphen followed by an ASCII
\* lowercase letter fails with SyntaxError and leaves the attributes of every
\* element, and the observers' queues, as they were.
C18_HyphenLowerRejected ==
  [][(lastOp'.op = "datasetSet" /\ hasHyphenLower(lastOp'.name)) =>
       /\ lastOp'.error = "SyntaxError"
       /\ attributes' = attributes
       /\ pending' = pending]_vars

\* A set of the property "-a" on an element that has attributes was rejected.
C18_Witness ==
  /\ lastOp.op = "datasetSet"
  /\ lastOp.name = <<"-", "a">>
  /\ lastOp.error = "SyntaxError"
  /\ attributes[lastOp.parent] # <<>>

(***************************************************************************)
(* Claims about the window's timers (SpecTimers)                           *)
(***************************************************************************)

\* C21: after close() the list of active timers is empty at every later point,
\* setTimeout and setInterval return 0 and register nothing, and no handler is
\* invoked any more, whether its timer was set before or after the close.
C21_ClosedWindowRunsNothing ==
  /\ [](~_document => listOfActiveTimers = <<>>)
  /\ [][~_document => windowLog'.invoked = windowLog.invoked]_vars
  /\ [][(~_document' /\ lastCall'.op \in {"setTimeout", "setInterval"}) =>
          /\ lastCall'.returned = 0
          /\ listOfActiveTimers' = listOfActiveTimers
          /\ nodejsTimers' = nodejsTimers
          /\ latestTimerId' = latestTimerId]_vars
  /\ [][(lastCall'.op = "task" /\ lastCall'.handler = "close"
           /\ windowLog'.invoked # windowLog.invoked) =>
          (listOfActiveTimers' = <<>> /\ nodejsTimers' = {})]_vars

\* Two timers were set, the window was closed, and a setTimeout call on the
\* closed window has returned 0.
C21_Witness ==
  /\ ~_document
  /\ latestTimerId = 2
  /\ lastCall.op = "setTimeout"
  /\ lastCall.returned = 0

\* The call just made was clearTimeout or clearInterval.
C27_Cleared == lastCall.op \in { "clearTimeout", "clearInterval" }

\* A handler is invoked only by a task of its handle.
C27_InvokedByItsTask ==
  \A h \in Handles :
    windowLog'.invoked[h] # windowLog.invoked[h] =>
      (lastCall'.op = "task" /\ lastCall'.handle = h)

\* Once a handle that was active is cleared, no task of it runs any more, so
\* its handler is not invoked again.
C27_NeverInvokedAfterwards ==
  \A h \in Handles :
    []((C27_Cleared /\ lastCall.active /\ lastCall.handle = h)
         => [](~(lastCall.op = "task" /\ lastCall.handle = h)))

\* Clearing a handle that is not active leaves the window as it was.
C27_UnknownChangesNothing ==
  (C27_Cleared' /\ ~lastCall'.active) =>
    UNCHANGED <<_document, listOfActiveTimers, latestTimerId, nodejsTimers,
                nextNodejsTimer, windowLog>>

\* C27: a timer whose handle is passed to clearTimeout or clearInterval before
\* its task runs, whichever of setTimeout and setInterval created it, is never
\* invoked afterwards; clearing a handle that is unknown or has finished
\* changes nothing.
C27_ClearedNeverInvoked ==
  /\ C27_NeverInvokedAfterwards
  /\ [][C27_InvokedByItsTask /\ C27_UnknownChangesNothing]_vars

\* clearTimeout has cleared an interval whose handler had run before.
C27_Witness ==
  /\ lastCall.op = "clearTimeout"
  /\ lastCall.active
  /\ lastCall.repeat
  /\ windowLog.invoked[lastCall.handle] > 0
  /\ lastCall.handle \notin DOMAIN listOfActiveTimers

\* Handlers are invoked by tasks only.
C28_InvokedByTasksOnly ==
  lastCall'.op # "task" => windowLog'.invoked = windowLog.invoked

\* After the task of a setTimeout timer its handler has been invoked once in
\* all, its handle is not in the list and no Node.js timer is left for it;
\* when the handler cleared the handle itself, the other handles are as the
\* handler left them.
C28_TimeoutTask ==
  (lastCall'.op = "task" /\ ~lastCall'.repeat) =>
    /\ windowLog'.invoked[lastCall'.handle] = 1
    /\ windowLog.invoked[lastCall'.handle] = 0
    /\ lastCall'.handle \notin DOMAIN listOfActiveTimers'
    /\ \A t \in nodejsTimers' : t.handle # lastCall'.handle
    /\ lastCall'.handler # "close" =>
         listOfActiveTimers' =
           [h \in DOMAIN listOfActiveTimers \ {lastCall'.handle} |->
              listOfActiveTimers[h]]

\* C28: a handler registered with setTimeout is invoked at most once, and once
\* its task has run its handle is no longer in the list of active timers; if
\* the handler removed the handle itself, the list is not changed again for it.
C28_TimeoutRunsOnce == [][C28_InvokedByTasksOnly /\ C28_TimeoutTask]_vars

\* A setTimeout handler that clears its own handle has run while another
\* timer is active.
C28_Witness ==
  /\ lastCall.op = "task"
  /\ ~lastCall.repeat
  /\ lastCall.handler = "clearSelf"
  /\ windowLog.invoked[lastCall.handle] = 1
  /\ DOMAIN listOfActiveTimers # {}

\* The task of a setInterval timer has just run.
C29_IntervalRan == lastCall.op = "task" /\ lastCall.repeat

\* The handler of that run cleared the handle or closed the window.
C29_Stopped == lastCall.handler \in { "clearSelf", "close" }

\* After a run that neither cleared the handle nor closed the window, the
\* handle is in the list with one new Node.js timer that will run the same
\* handler again, and no handle was allocated.
C29_Rearmed ==
  (C29_IntervalRan' /\ ~C29_Stopped') =>
    /\ windowLog'.invoked[lastCall'.handle] = windowLog.invoked[lastCall'.handle] + 1
    /\ lastCall'.handle \in DOMAIN listOfActiveTimers'
    /\ listOfActiveTimers'[lastCall'.handle] = nextNodejsTimer'
    /\ nextNodejsTimer' = nextNodejsTimer + 1
    /\ [id |-> nextNodejsTimer', handle |-> lastCall'.handle, repeat |-> TRUE,
         handler |-> lastCall'.handler] \in nodejsTimers'
    /\ Cardinality({ t \in nodejsTimers' : t.handle = lastCall'.handle }) = 1
    /\ latestTimerId' = latestTimerId

\* After a run that cleared the handle or closed the window, the handle is
\* not in the list and no Node.js timer is armed for it.
C29_NotRearmed ==
  (C29_IntervalRan' /\ C29_Stopped') =>
    /\ lastCall'.handle \notin DOMAIN listOfActiveTimers'
    /\ \A t \in nodejsTimers' : t.handle # lastCall'.handle
    /\ nextNodejsTimer' = nextNodejsTimer

\* A handler is invoked only when a Node.js timer is armed for its handle.
C29_InvokedWhenArmed ==
  \A h \in Handles :
    windowLog'.invoked[h] # windowLog.invoked[h] =>
      \E t \in nodejsTimers : t.handle = h

\* After such a run the handle is never in the list again and no Node.js
\* timer is ever armed for it again, so the handler never fires again.
C29_NeverFiresAgain ==
  \A h \in Handles :
    []((C29_IntervalRan /\ C29_Stopped /\ lastCall.handle = h)
         => [](/\ h \notin DOMAIN listOfActiveTimers
               /\ \A t \in nodejsTimers : t.handle # h))

\* C29: a setInterval timer is armed again after each run under the same
\* handle, so that it fires again, until the handle is cleared; when the
\* handler clears its own handle or closes the window during a run, the timer
\* is not armed again and never fires again.
C29_IntervalRearmed ==
  /\ [][C29_Rearmed /\ C29_NotRearmed /\ C29_InvokedWhenArmed]_vars
  /\ C29_NeverFiresAgain

\* An interval has run for the second time and is armed again.
C29_Witness ==
  /\ C29_IntervalRan
  /\ ~C29_Stopped
  /\ windowLog.invoked[lastCall.handle] = 2
  /\ lastCall.handle \in DOMAIN listOfActiveTimers

\* Every handle in the list, and every handle a Node.js timer is armed for,
\* is positive and was allocated; each handle in the list has exactly one
\* Node.js timer, the one the list records, and no other timer is armed.
C30_OneTimerPerHandle ==
  /\ \A h \in DOMAIN listOfActiveTimers :
        /\ h >= 1
        /\ h <= latestTimerId
        /\ Cardinality({ t \in nodejsTimers : t.handle = h }) = 1
        /\ \E t \in nodejsTimers : t.handle = h /\ t.id = listOfActiveTimers[h]
  /\ \A t \in nodejsTimers : t.handle \in DOMAIN listOfActiveTimers
  /\ lastCall.returned <= latestTimerId

\* setTimeout and setInterval on an open window return a positive handle
\* beyond every handle allocated before, which is the only one they add to
\* the list.
C30_Allocates ==
  (lastCall'.op \in { "setTimeout", "setInterval" } /\ _document) =>
    /\ lastCall'.returned > 0
    /\ lastCall'.returned > latestTimerId
    /\ latestTimerId' = lastCall'.returned
    /\ DOMAIN listOfActiveTimers' =
         DOMAIN listOfActiveTimers \cup { lastCall'.returned }

\* No other step allocates a handle or adds one to the list: not the task
\* that arms an interval again.
C30_NothingElseAllocates ==
  (lastCall'.op \notin { "setTimeout", "setInterval" }) =>
    /\ latestTimerId' = latestTimerId
    /\ DOMAIN listOfActiveTimers' \subseteq DOMAIN listOfActiveTimers

\* C30: on an open window the handles returned by setTimeout and setInterval
\* are positive, strictly increasing in call order and never reused; at every
\* moment each handle in the list of active timers belongs to exactly one
\* timer, and arming an interval again allocates no handle.
C30_HandlesUnique ==
  []C30_OneTimerPerHandle /\ [][C30_Allocates /\ C30_NothingElseAllocates]_vars

\* An interval was armed again, after which a second timer got the next
\* handle.
C30_Witness ==
  /\ lastCall.op \in { "setTimeout", "setInterval" }
  /\ lastCall.returned = 2
  /\ windowLog.invoked[1] > 0
  /\ DOMAIN listOfActiveTimers = { 1, 2 }

\* The task that has just run had a handler that throws.
C31_Threw == lastCall.op = "task" /\ lastCall.handler = "throw"

\* The exception of the handler is reported, once, and the task goes on: the
\* handle of a setTimeout timer leaves the list and no Node.js timer is left
\* for it; the handle of a setInterval timer stays in the list with a new
\* Node.js timer for the same handler.
C31_ThrowingTask ==
  C31_Threw' =>
    /\ windowLog'.invoked[lastCall'.handle] = windowLog.invoked[lastCall'.handle] + 1
    /\ windowLog'.reported = windowLog.reported + 1
    /\ ~lastCall'.repeat =>
         /\ lastCall'.handle \notin DOMAIN listOfActiveTimers'
         /\ \A t \in nodejsTimers' : t.handle # lastCall'.handle
    /\ lastCall'.repeat =>
         /\ lastCall'.handle \in DOMAIN listOfActiveTimers'
         /\ listOfActiveTimers'[lastCall'.handle] = nextNodejsTimer'
         /\ nextNodejsTimer' = nextNodejsTimer + 1
         /\ [id |-> nextNodejsTimer', handle |-> lastCall'.handle,
              repeat |-> TRUE, handler |-> "throw"] \in nodejsTimers'
    /\ \A h \in DOMAIN listOfActiveTimers \ { lastCall'.handle } :
         /\ h \in DOMAIN listOfActiveTimers'
         /\ listOfActiveTimers'[h] = listOfActiveTimers[h]

\* Nothing is reported when no handler threw.
C31_ReportedOnlyWhenThrown ==
  ~C31_Threw' => windowLog'.reported = windowLog.reported

\* C31: an exception thrown by a timer handler is reported to reportException
\* and does not skip the bookkeeping of the task: a setTimeout timer is still
\* removed from the list of active timers and a setInterval timer is still
\* armed again.
C31_ThrowKeepsBookkeeping ==
  [][C31_ThrowingTask /\ C31_ReportedOnlyWhenThrown]_vars

\* A throwing interval has run and is armed again, and a throwing setTimeout
\* handler has run and left the list.
C31_Witness ==
  /\ C31_Threw
  /\ windowLog.reported = 2
  /\ windowLog.invoked[1] = 1
  /\ windowLog.invoked[2] = 1
  /\ DOMAIN listOfActiveTimers = { 1 }

(***************************************************************************)
(* Claims about animation frames (SpecFrames)                              *)
(***************************************************************************)

\* C22: between frame runs, the Node.js interval that drives animation frames is
\* active if and only if at least one animation-frame callback is pending.
C22_IntervalActiveIffPending ==
  (animationFrameNodejsInterval \in nodejsIntervals)
    <=> (mapOfAnimationFrameCallbacks # <<>>)

\* The handles invoked by the step, in order.
C23_InvokedNow ==
  SubSeq(windowLog'.frames, Len(windowLog.frames) + 1, Len(windowLog'.frames))

\* The handles pending in a state.
C23_Pending(map) == { map[i].handle : i \in 1..Len(map) }

\* A frame run invokes only callbacks that were pending when it started, in the
\* order they were requested, and what its callbacks request stays pending
\* unless a callback of the run cancels it.
C23_RunUsesSnapshot ==
  lastCall'.op = "tick" =>
    /\ Range(C23_InvokedNow) \subseteq C23_Pending(mapOfAnimationFrameCallbacks)
    /\ \A i, j \in 1..Len(C23_InvokedNow) :
         i < j => C23_InvokedNow[i] < C23_InvokedNow[j]
    /\ \A h \in (animationFrameCallbackId + 1)..animationFrameCallbackId' :
         /\ h \notin Range(windowLog'.frames)
         /\ h \in C23_Pending(mapOfAnimationFrameCallbacks')
              \/ h \in windowLog'.cancelled

\* C23: a frame run works on the snapshot of the callbacks pending when it
\* starts, in request order; a callback requested by a callback of the run is
\* not invoked in that run, it stays pending and, while the window is open and
\* nobody cancels it, a later frame run invokes it.
C23_SnapshotPerFrame ==
  /\ [][C23_RunUsesSnapshot]_vars
  /\ \A h \in 1..MaxFrames :
       (h \in windowLog.nested) ~>
         (\/ h \in Range(windowLog.frames)
          \/ h \in windowLog.cancelled
          \/ ~_document)

\* Callback 1 requested callback 2 while it ran; a later frame run has invoked
\* callback 2.
C23_Witness ==
  /\ windowLog.nested = {2}
  /\ windowLog.frames = <<1, 2>>
  /\ lastCall.op = "tick"
  /\ _document

\* No request is invoked twice, and no request cancelled while it was pending
\* is invoked.
C24_OncePerRequest ==
  /\ \A i, j \in 1..Len(windowLog.frames) :
       windowLog.frames[i] = windowLog.frames[j] => i = j
  /\ windowLog.cancelled \cap Range(windowLog.frames) = {}

\* A frame run invokes every callback of its snapshot that no callback of the
\* run has cancelled, whatever the callbacks before it threw, and each throw is
\* reported once.
C24_RunCompletes ==
  lastCall'.op = "tick" =>
    /\ \A h \in C23_Pending(mapOfAnimationFrameCallbacks) :
         h \in Range(C23_InvokedNow) \/ h \in lastCall'.cancelled
    /\ lastCall'.cancelled \cap Range(windowLog'.frames) = {}
    /\ windowLog'.reported - windowLog.reported =
         Cardinality({ i \in 1..Len(mapOfAnimationFrameCallbacks) :
                         /\ mapOfAnimationFrameCallbacks[i].callback = "throw"
                         /\ mapOfAnimationFrameCallbacks[i].handle
                              \in Range(C23_InvokedNow) })

\* C24: an animation-frame callback is invoked at most once per request; one
\* cancelled before its turn is never invoked, also when an earlier callback of
\* the same frame run cancels it; an exception a callback throws is reported
\* and the remaining callbacks of the run are still invoked.
C24_OnceAndIsolated == []C24_OncePerRequest /\ [][C24_RunCompletes]_vars

\* In one frame run callback 1 cancelled callback 2, which was then skipped,
\* and callback 1 was the only one invoked.
C24_Witness ==
  /\ lastCall.op = "tick"
  /\ lastCall.cancelled = {2}
  /\ windowLog.frames = <<1>>
  /\ mapOfAnimationFrameCallbacks = <<>>

\* C32: whatever requestAnimationFrame, cancelAnimationFrame and frame runs
\* have been made, with handles that are unknown or have run and with
\* callbacks that request or cancel, the counter of ongoing animation-frame
\* callbacks is the number of entries of the map of pending callbacks and is
\* not negative.
C32_CounterIsMapSize ==
  /\ numberOfOngoingAnimationFrameCallbacks = Len(mapOfAnimationFrameCallbacks)
  /\ numberOfOngoingAnimationFrameCallbacks >= 0

\* A callback requested another one during a frame run, and then a handle
\* that had already run was cancelled while the other one is pending.
C32_Witness ==
  /\ lastCall.op = "cancelAnimationFrame"
  /\ lastCall.handle \in Range(windowLog.frames)
  /\ windowLog.nested # {}
  /\ numberOfOngoingAnimationFrameCallbacks = 1
  /\ Len(mapOfAnimationFrameCallbacks) = 1

(***************************************************************************)
(* Claims about the initialization of the window (SpecWindow)              *)
(***************************************************************************)
\* C26: once a window is closed while its deferred initialization step is
\* still to run, no load event and no pageshow event is fired on it, then or
\* at any later time.
C26_ClosedBeforeInitFiresNothing ==
  []((~_document /\ nextTick) => [](windowLog.events = {}))

\* The initialization step has just run on a window that was closed before
\* it, with a document that had finished loading.
C26_Witness ==
  /\ lastCall.op = "nextTick"
  /\ ~_document
  /\ readyState = "complete"
  /\ windowLog.events = {}

(***************************************************************************)
(* Claims about template contents (SpecTemplate)                           *)
(***************************************************************************)

\* C11: after setTemplateContent(templateEl, fragment) on a template element,
\* the element's content is the supplied fragment, the fragment's owner document
\* and host are those of the content fragment the element had before, and
\* every other field of the element, every other element and every other
\* fragment are as before the call.
C11_ContentReplaced ==
  (lastTemplateOp.op = "setTemplateContent" /\ lastTemplateOp.error = "none") =>
    LET el == lastTemplateOp.templateElement
        frag == lastTemplateOp.contentFragment
        old == lastTemplateOp.elementBefore[el]._templateContents
    IN /\ old # undefined
       /\ elementImpl[el]._templateContents = frag
       /\ fragmentImpl[frag]._ownerDocument =
            lastTemplateOp.fragmentBefore[old]._ownerDocument
       /\ fragmentImpl[frag]._host = lastTemplateOp.fragmentBefore[old]._host
       /\ elementImpl = [lastTemplateOp.elementBefore EXCEPT
                           ![el]._templateContents = frag]
       /\ \A g \in FragmentIds :
            (g # frag /\ lastTemplateOp.fragmentBefore[g] # NoFragment)
              => fragmentImpl[g] = lastTemplateOp.fragmentBefore[g]

\* A fragment made for the document has become the content of template 1 and
\* has taken the inert owner document and the host of the fragment it replaced.
C11_Witness ==
  /\ lastTemplateOp.op = "setTemplateContent"
  /\ lastTemplateOp.error = "none"
  /\ lastTemplateOp.templateElement = 1
  /\ lastTemplateOp.elementBefore[1]._templateContents = 31
  /\ lastTemplateOp.fragmentBefore[lastTemplateOp.contentFragment]._ownerDocument
       = "doc"
  /\ fragmentImpl[lastTemplateOp.contentFragment] =
       [_ownerDocument |-> "inert", _host |-> 1]

\* C12: setTemplateContent on a node with no pre-allocated content fragment
\* fails with InvalidStateError and leaves the node and the supplied fragment
\* unchanged.
C12_NonTemplateInvalidState ==
  (/\ lastTemplateOp.op = "setTemplateContent"
   /\ lastTemplateOp.elementBefore[lastTemplateOp.templateElement]._templateContents
        = undefined)
  => /\ lastTemplateOp.error = "InvalidStateError"
     /\ elementImpl = lastTemplateOp.elementBefore
     /\ fragmentImpl[lastTemplateOp.contentFragment] =
          lastTemplateOp.fragmentBefore[lastTemplateOp.contentFragment]

(***************************************************************************)
(* Claims about the owner document of created nodes (SpecOwner)            *)
(***************************************************************************)

\* The owner document a node created now must get: that of the content of the
\* innermost open element when it is an HTML template, else that element's own,
\* else the document being parsed into.
C25_Expected ==
  IF openElements = <<>> THEN "doc"
  ELSE LET top == elementImpl[openElements[Len(openElements)]]
       IN IF top.localName = "template" /\ top.namespaceURI = HTML_NS
          THEN fragmentImpl[top._templateContents]._ownerDocument
          ELSE top._ownerDocument

\* C25: every node the adapter creates (element, comment, doctype, text,
\* document fragment) has as owner document the owner document of the
\* template's content when the current element is an HTML template, the current
\* element's owner document otherwise, and the adapter's document when no
\* element is open.
C25_CreatedNodeOwner ==
  [][/\ lastCreated' # lastCreated => lastCreated'.ownerDocument = C25_Expected
     /\ nextFragment' # nextFragment =>
          fragmentImpl'[32 + nextFragment']._ownerDocument = C25_Expected]_vars

\* A node was created while an HTML template was the current element, and its
\* owner is the inert document of the template's content.
C25_Witness ==
  /\ lastCreated.kind = "text"
  /\ lastCreated.ownerDocument = "inert"
  /\ openElements # <<>>
  /\ openElements[Len(openElements)] = 1

(***************************************************************************)
(* Claims about the stack hooks (SpecStack)                                *)
(***************************************************************************)

\* C10: the adapter's current element is the top of the tokenizer's stack of
\* open elements, and it is undefined exactly when that stack is empty.
C10_CurrentIsTop ==
  /\ currentElement = (IF openElements = <<>> THEN undefined
                       ELSE openElements[Len(openElements)])
  /\ currentElement = undefined <=> openElements = <<>>

\* An element was popped and the stack still holds two elements.
C10_Witness ==
  /\ Len(openElements) = 2
  /\ \E e \in OpenPool : hookCalls[e] = "popped" /\ e \notin Range(openElements)
  /\ currentElement = openElements[2]

====
